---- MODULE Spec2Model ----
(***************************************************************************)
(* Network connection monitor (network_monitor.py): the aggregation store  *)
(* of NetworkMonitor, its eviction, its outage scan, and the probe loop of *)
(* run() with its signal handler.                                          *)
(*                                                                         *)
(* Time is the wall clock in whole seconds.  A bucket key is the text      *)
(* strftime produces, kept as its three ordered fields <<date-and-hour,    *)
(* minute, second>>; keys are compared as the strings are (field by field, *)
(* left to right) and parsed back to seconds the way strptime does.        *)
(***************************************************************************)
EXTENDS Integers, Sequences, FiniteSets, TLC

(* ------------------------------ bounds --------------------------------- *)
\* how many readings of the wall clock find it moved
MaxTicks == 2
\* how many probe cycles run() may start
MaxCycles == 2

(* ------------------------- program constants --------------------------- *)
\* DEFAULT_PACKET_LOSS_THRESHOLD = 0.3, as the fraction 3/10
ThresholdNum == 3
ThresholdDen == 10
\* DEFAULT_FILE_WRITE_INTERVAL
write_interval == 10
\* the literal 60 of run(): seconds between two evictions
CleanupInterval == 60
\* config.max_seconds (--max-seconds)
max_seconds == 1
\* fields of the time format
SecPerMin == 60
SecPerHour == 3600
\* wall clock at construction (startup_time)
StartTime == 3598
\* --alert-cooldown default
alert_cooldown == 300
\* the slice [-10:] of run(): seconds looked at before alerting
AlertWindow == 10

\* the steps the wall clock is seen to take
Advances == {1, 60}
\* the steps of the wall clock between two probes: a second, or a whole alert cooldown
ProbeAdvances == {1, alert_cooldown}
\* RTTs a successful probe may measure (ms)
RttValues == {12}
\* config.hosts after _parse_hosts: the HostConfig names, in order
HostList == <<"a", "b">>
Hosts == {HostList[i] : i \in 1..Len(HostList)}
Resolutions == {"second", "minute", "hour"}

(* ------------------------------ state ---------------------------------- *)
VARIABLES
    clock,               \* the wall clock at its last reading, seconds
    ticks,               \* clock movements seen so far (bounded)
    host_data,           \* self.host_data: host -> resolution -> key -> AggregatedStats
    last_results,        \* self.last_results: host -> <<>> or <<TestResult>>
    shutdown_requested,  \* self.shutdown_requested
    last_write_time,     \* self.last_write_time
    last_cleanup_time,   \* self.last_cleanup_time
    last_alert_time,     \* alert_manager.last_alert_time: host -> <<>> or <<time>>
    pc,                  \* where run() is
    hostIdx,             \* index of the host the for loop of run() is at
    ct,                  \* the local ct of run()
    pending,             \* exception in flight through the finally clause
    cycles,              \* probe cycles started (bounded)
    signals,             \* SIGINTs delivered
    flushes,             \* calls of _shutdown's _write_stats
    exitCause,           \* how the while loop was left
    outages,             \* last list written to outages.txt by _write_stats
    upd,                 \* _update_stats in progress: its result, loop index and next statement
    clean,               \* _cleanup_old_data in progress: host index and keys still to delete
    reader,              \* the locals of a dashboard request running _get_web_stats
    net                  \* what the network did to the last probe (the environment)

\* what only matters while a dashboard thread runs beside the probe loop
threadVars == <<upd, clean, reader>>

vars == <<clock, ticks, host_data, last_results, shutdown_requested,
          last_write_time, last_cleanup_time, last_alert_time, pc, hostIdx, ct,
          pending, cycles, signals, flushes, exitCause, outages, upd, clean, reader,
          net>>

(* --------------------------- time keys --------------------------------- *)
\* now.strftime('%Y-%m-%d %H:%M:%S')
FmtSecond(t) == <<t \div SecPerHour, (t % SecPerHour) \div SecPerMin, t % SecPerMin>>
\* FmtMinute with the seconds field kept: '%Y-%m-%d %H:%M:%S'
FmtMinute_NotTruncated(t) ==
    <<t \div SecPerHour, (t % SecPerHour) \div SecPerMin, t % SecPerMin>>

\* now.strftime('%Y-%m-%d %H:%M:00')
FmtMinute(t) == <<t \div SecPerHour, (t % SecPerHour) \div SecPerMin, 0>>
\* now.strftime('%Y-%m-%d %H:00:00')
FmtHour(t) == <<t \div SecPerHour, 0, 0>>
\* datetime.strptime(key, '%Y-%m-%d %H:%M:%S'), as seconds
Strptime(k) == k[1] * SecPerHour + k[2] * SecPerMin + k[3]
\* str < str on two keys
KeyLess(k1, k2) ==
    \/ k1[1] < k2[1]
    \/ k1[1] = k2[1] /\ k1[2] < k2[2]
    \/ k1[1] = k2[1] /\ k1[2] = k2[2] /\ k1[3] < k2[3]

\* sorted(keys)
RECURSIVE SortedKeys(_)
SortedKeys(S) ==
    IF S = {} THEN <<>>
    ELSE LET m == CHOOSE k \in S : \A o \in S : o = k \/ KeyLess(k, o)
         IN <<m>> \o SortedKeys(S \ {m})

(* ------------------------- AggregatedStats ----------------------------- *)
NewStats == [sent |-> 0, received |-> 0, rtts |-> <<>>, success_count |-> 0, fail_count |-> 0]

\* packet_loss without the division: the number of lost probes
packet_loss_AsCount(stats) ==
    IF stats.sent > 0 THEN [num |-> stats.sent - stats.received, den |-> 1]
    ELSE [num |-> 0, den |-> 1]

\* AggregatedStats.packet_loss, as the exact fraction num/den
packet_loss(stats) ==
    IF stats.sent > 0 THEN [num |-> stats.sent - stats.received, den |-> stats.sent]
    ELSE [num |-> 0, den |-> 1]

\* stats.packet_loss > self.config.packet_loss_threshold
LossAboveThreshold(stats) ==
    packet_loss(stats).num * ThresholdDen > ThresholdNum * packet_loss(stats).den

(* --------------------------- _update_stats ----------------------------- *)
\* if time_key not in storage: storage[time_key] = AggregatedStats()
Touch(storage, key) ==
    IF key \in DOMAIN storage THEN storage ELSE storage @@ (key :> NewStats)

IncSent(stats) == [stats EXCEPT !.sent = @ + 1]
IncReceived(stats) == [stats EXCEPT !.received = @ + 1]
IncSuccess(stats) == [stats EXCEPT !.success_count = @ + 1]
AppendRtt(stats, result) ==
    IF result.rtt_ms # <<>> THEN [stats EXCEPT !.rtts = Append(@, result.rtt_ms[1])] ELSE stats
IncFail(stats) == [stats EXCEPT !.fail_count = @ + 1]

\* ApplyResult with "stats.success_count += 1" left out
ApplyResult_NoSuccessCount(stats, result) ==
    IF result.success
    THEN AppendRtt(IncReceived(IncSent(stats)), result)
    ELSE IncFail(IncSent(stats))

\* the body of the for loop of _update_stats on one bucket
ApplyResult(stats, result) ==
    IF result.success
    THEN AppendRtt(IncSuccess(IncReceived(IncSent(stats))), result)
    ELSE IncFail(IncSent(stats))

\* the list keys of _update_stats: <<resolution, time key>>
UpdateKeys(result) ==
    << <<"second", FmtSecond(result.timestamp)>>,
       <<"minute", FmtMinute(result.timestamp)>>,
       <<"hour", FmtHour(result.timestamp)>> >>

\* one iteration of the for loop of _update_stats
UpdateOne(data, res, key, result) ==
    [data EXCEPT ![res] = [Touch(@, key) EXCEPT ![key] = ApplyResult(@, result)]]

\* UpdateStats with the minute entry twice in the list keys
UpdateStats_MinuteTwice(hd, host, result) ==
    LET ks == UpdateKeys(result)
        d1 == UpdateOne(hd[host], ks[1][1], ks[1][2], result)
        d2 == UpdateOne(d1, ks[2][1], ks[2][2], result)
        d3 == UpdateOne(d2, ks[2][1], ks[2][2], result)
        d4 == UpdateOne(d3, ks[3][1], ks[3][2], result)
    IN [hd EXCEPT ![host] = d4]

\* _update_stats(host, result) on host_data
UpdateStats(hd, host, result) ==
    LET ks == UpdateKeys(result)
        d1 == UpdateOne(hd[host], ks[1][1], ks[1][2], result)
        d2 == UpdateOne(d1, ks[2][1], ks[2][2], result)
        d3 == UpdateOne(d2, ks[3][1], ks[3][2], result)
    IN [hd EXCEPT ![host] = d3]

(* ------------------------- _cleanup_old_data --------------------------- *)
\* EvictKeys with the slice taken from the wrong end: [max_seconds:]
EvictKeys_Newest(sd) ==
    LET n == Cardinality(DOMAIN sd)
        s == SortedKeys(DOMAIN sd)
    IN IF n > max_seconds THEN {s[i] : i \in (max_seconds + 1)..n} ELSE {}

\* sorted(sd.keys())[:len(sd) - max_seconds]
EvictKeys(sd) ==
    LET n == Cardinality(DOMAIN sd)
        s == SortedKeys(DOMAIN sd)
    IN IF n > max_seconds THEN {s[i] : i \in 1..(n - max_seconds)} ELSE {}

\* the body of _cleanup_old_data for one host's second dictionary
CleanupSeconds(sd) == [k \in (DOMAIN sd) \ EvictKeys(sd) |-> sd[k]]

\* CleanupOldData applied to the three resolutions alike
CleanupOldData_AllResolutions(hd) ==
    [h \in DOMAIN hd |-> [r \in DOMAIN hd[h] |-> CleanupSeconds(hd[h][r])]]

\* CleanupOldData that stops after the first host
CleanupOldData_FirstHostOnly(hd) ==
    [hd EXCEPT ![HostList[1]]["second"] = CleanupSeconds(@)]

\* _cleanup_old_data()
CleanupOldData(hd) ==
    [h \in DOMAIN hd |-> [hd[h] EXCEPT !["second"] = CleanupSeconds(@)]]

(* --------------------------- _detect_outages --------------------------- *)
\* the bad_seconds entry of one key
BadSecond(sd, key) ==
    [time |-> key, sent |-> sd[key].sent, received |-> sd[key].received,
     loss_percent |-> [num |-> packet_loss(sd[key]).num * 100, den |-> packet_loss(sd[key]).den]]

\* Qualifies with the threshold left out: any loss at all
Qualifies_AnyLoss(stats) == stats.sent > 0 /\ stats.received < stats.sent

\* the test of line 500: stats.sent > 0 and stats.packet_loss > threshold
Qualifies(stats) == stats.sent > 0 /\ LossAboveThreshold(stats)

\* bad_seconds: the qualifying entries in sorted key order
RECURSIVE BadSecondsFrom(_, _, _)
BadSecondsFrom(sd, keys, i) ==
    IF i > Len(keys) THEN <<>>
    ELSE (IF Qualifies(sd[keys[i]]) THEN <<BadSecond(sd, keys[i])>> ELSE <<>>)
         \o BadSecondsFrom(sd, keys, i + 1)

BadSeconds(sd) == BadSecondsFrom(sd, SortedKeys(DOMAIN sd), 1)

\* a fresh current_outage (lines 508 and 521)
OpenOutage(host_name, sec) ==
    [host |-> host_name, start |-> sec.time, end |-> sec.time, sent |-> sec.sent,
     received |-> sec.received, seconds |-> <<sec>>]

\* ExtendOutage with "current_outage['received'] += sec['received']" left out
ExtendOutage_NoReceived(cur, sec) ==
    [cur EXCEPT !.end = sec.time, !.sent = @ + sec.sent, !.seconds = Append(@, sec)]

\* ExtendOutage with "current_outage['end'] = sec['time']" left out
ExtendOutage_KeepsEnd(cur, sec) ==
    [cur EXCEPT !.sent = @ + sec.sent, !.received = @ + sec.received,
                !.seconds = Append(@, sec)]

\* the merge branch (lines 512-515)
ExtendOutage(cur, sec) ==
    [cur EXCEPT !.end = sec.time, !.sent = @ + sec.sent,
                !.received = @ + sec.received, !.seconds = Append(@, sec)]

\* CloseOutage with the duration taken as end - start
CloseOutage_DurationBySpan(cur) ==
    [host |-> cur.host, start |-> cur.start, end |-> cur.end, sent |-> cur.sent,
     received |-> cur.received, duration |-> Strptime(cur.end) - Strptime(cur.start),
     loss_percent |-> IF cur.sent > 0
                      THEN [num |-> (cur.sent - cur.received) * 100, den |-> cur.sent]
                      ELSE [num |-> 0, den |-> 1]]

\* closing an outage (lines 517-519 and 523-525): duration, loss_percent, del seconds
CloseOutage(cur) ==
    [host |-> cur.host, start |-> cur.start, end |-> cur.end, sent |-> cur.sent,
     received |-> cur.received, duration |-> Len(cur.seconds),
     loss_percent |-> IF cur.sent > 0
                      THEN [num |-> (cur.sent - cur.received) * 100, den |-> cur.sent]
                      ELSE [num |-> 0, den |-> 1]]

\* MergesWith with the gap test widened to <= 2
MergesWith_WithinTwo(cur, sec) == Strptime(sec.time) - Strptime(cur.end) <= 2

\* MergesWith with the gap test narrowed to < 1
MergesWith_Never(cur, sec) == Strptime(sec.time) - Strptime(cur.end) < 1

\* (sec_time - last_time).total_seconds() <= 1
MergesWith(cur, sec) == Strptime(sec.time) - Strptime(cur.end) <= 1

\* the for loop over bad_seconds; cur is <<>> (None) or <<current_outage>>
RECURSIVE WalkBad(_, _, _, _)
WalkBad(host_name, bad, i, cur) ==
    IF i > Len(bad)
    THEN (IF cur # <<>> THEN <<CloseOutage(cur[1])>> ELSE <<>>)
    ELSE IF cur = <<>>
         THEN WalkBad(host_name, bad, i + 1, <<OpenOutage(host_name, bad[i])>>)
         ELSE IF MergesWith(cur[1], bad[i])
              THEN WalkBad(host_name, bad, i + 1, <<ExtendOutage(cur[1], bad[i])>>)
              ELSE <<CloseOutage(cur[1])>>
                   \o WalkBad(host_name, bad, i + 1, <<OpenOutage(host_name, bad[i])>>)

\* HostOutages with second_data taken from the first host for every host
HostOutages_Shared(hd, host_name) ==
    WalkBad(host_name, BadSeconds(hd[HostList[1]]["second"]), 1, <<>>)

\* the outages one host appends to all_outages, in the order appended
HostOutages(hd, host_name) == WalkBad(host_name, BadSeconds(hd[host_name]["second"]), 1, <<>>)

\* all_outages before the final sort: hosts in the order of self.host_data
RECURSIVE AllOutagesFrom(_, _)
AllOutagesFrom(hd, i) ==
    IF i > Len(HostList) THEN <<>>
    ELSE HostOutages(hd, HostList[i]) \o AllOutagesFrom(hd, i + 1)

\* SortByStartDesc without the sort: all_outages as appended
SortByStartDesc_Unsorted(seq) == seq

\* sorted(all_outages, key=lambda x: x['start'], reverse=True): stable
RECURSIVE SortByStartDesc(_)
SortByStartDesc(seq) ==
    IF seq = <<>> THEN <<>>
    ELSE LET i == CHOOSE j \in 1..Len(seq) :
                    /\ \A k \in 1..Len(seq) : ~KeyLess(seq[j].start, seq[k].start)
                    /\ \A k \in 1..(j - 1) : seq[k].start # seq[j].start
             rest == [k \in 1..(Len(seq) - 1) |-> IF k < i THEN seq[k] ELSE seq[k + 1]]
         IN <<seq[i]>> \o SortByStartDesc(rest)

\* _detect_outages()
DetectOutages(hd) == SortByStartDesc(AllOutagesFrom(hd, 1))

(* ------------------------------- probes -------------------------------- *)
\* what ConnectionTester.test_tcp / test_udp return at wall clock t
TestOutcomes(t) ==
    {[timestamp |-> t, success |-> TRUE, rtt_ms |-> <<r>>] : r \in RttValues}
    \cup {[timestamp |-> t, success |-> FALSE, rtt_ms |-> <<>>]}

(* ------------------------------- alerts -------------------------------- *)
RECURSIVE SumOver(_, _, _)
\* sum of field f (1 = sent, 2 = received) of sd over the keys of a sequence
SumOver(sd, keys, f) ==
    IF keys = <<>> THEN 0
    ELSE (IF f = 1 THEN sd[Head(keys)].sent ELSE sd[Head(keys)].received)
         + SumOver(sd, Tail(keys), f)

\* rs of run(): sent and received summed over sorted(recent.keys())[-10:]
RecentStats(sd) ==
    LET s == SortedKeys(DOMAIN sd)
        keys == IF Len(s) > AlertWindow THEN SubSeq(s, Len(s) - AlertWindow + 1, Len(s)) ELSE s
    IN [NewStats EXCEPT !.sent = SumOver(sd, keys, 1), !.received = SumOver(sd, keys, 2)]

\* should_alert with no cooldown test: every attempt is dispatched
should_alert_NoCooldown(lat, host, now) ==
    <<TRUE, [lat EXCEPT ![host] = <<now>>]>>

\* AlertManager.should_alert(host) at wall clock now: <<answer, last_alert_time'>>
should_alert(lat, host, now) ==
    LET last == IF lat[host] = <<>> THEN 0 ELSE lat[host][1]
    IN IF now - last >= alert_cooldown
       THEN <<TRUE, [lat EXCEPT ![host] = <<now>>]>>
       ELSE <<FALSE, lat>>

\* lines 613-622 of run(): the alert check after a failed probe
AlertAfter(lat, hd, host, result, now) ==
    IF ~result.success /\ LossAboveThreshold(RecentStats(hd[host]["second"]))
    THEN should_alert(lat, host, now)[2]
    ELSE lat

\* lines 610-622 of run() for one host, given the result _test_host returned:
\* last_results, _update_stats and the alert check
ProbeEffect(st, host, result) ==
    LET hd == UpdateStats(st.hd, host, result)
    IN [hd |-> hd,
        lr |-> [st.lr EXCEPT ![host] = <<result>>],
        lat |-> AlertAfter(st.lat, hd, host, result, result.timestamp)]

(* -------------------------------- run() -------------------------------- *)
\* no _update_stats in progress
NoUpdate == [result |-> <<>>, idx |-> 0, stmt |-> "none"]
\* no _cleanup_old_data in progress
NoCleanup == [host |-> 0, keys |-> <<>>]
\* no dashboard request in progress
IdleReader ==
    [pc |-> "idle", host |-> 0, used |-> 0, last |-> <<>>, ref |-> <<>>, det |-> <<>>,
     seen |-> <<>>, total_sent |-> 0, total_received |-> 0, succ |-> 0, tests |-> 0,
     rates |-> <<>>, keys |-> <<>>, pos |-> 0, bad |-> <<>>, all |-> <<>>,
     err |-> "none", requests |-> 0]

EmptyStorage == [k \in {} |-> NewStats]

Init ==
    /\ clock = StartTime
    /\ ticks = 0
    /\ host_data = [h \in Hosts |-> [r \in Resolutions |-> EmptyStorage]]
    /\ last_results = [h \in Hosts |-> <<>>]
    /\ shutdown_requested = FALSE
    /\ last_write_time = StartTime
    /\ last_cleanup_time = StartTime
    /\ last_alert_time = [h \in Hosts |-> <<>>]
    /\ pc = "start"
    /\ hostIdx = 1
    /\ ct = 0
    /\ pending = "none"
    /\ cycles = 0
    /\ signals = 0
    /\ flushes = 0
    /\ exitCause = "none"
    /\ outages = <<>>
    /\ upd = NoUpdate
    /\ clean = NoCleanup
    /\ reader = IdleReader
    /\ net = "none"

\* the positions of run() inside its try block
InTry == {"loop_top", "probe", "timer_write", "timer_cleanup", "sleep"}
\* run() has returned, or an exception has left it
Terminal == {"done", "raised"}

\* a reading of the wall clock: it has moved by d seconds since the last reading
ClockRead(d) ==
    /\ d = 0 \/ ticks < MaxTicks
    /\ clock' = clock + d
    /\ ticks' = IF d = 0 THEN ticks ELSE ticks + 1

\* run() up to the try block: dashboard thread started, session.txt written
RunStart ==
    /\ UNCHANGED <<threadVars, net>>
    /\ pc = "start"
    /\ pc' = "loop_top"
    /\ UNCHANGED <<clock, ticks, host_data, last_results, shutdown_requested,
                   last_write_time, last_cleanup_time, last_alert_time, hostIdx, ct,
                   pending, cycles, signals, flushes, exitCause, outages>>

\* LoopTest as "while True": the flag is never looked at
LoopTest_IgnoresFlag ==
    /\ UNCHANGED <<threadVars, net>>
    /\ pc = "loop_top"
    /\ cycles < MaxCycles
    /\ pc' = "probe"
    /\ hostIdx' = 1
    /\ cycles' = cycles + 1
    /\ UNCHANGED <<clock, ticks, host_data, last_results, shutdown_requested,
                   last_write_time, last_cleanup_time, last_alert_time, ct, pending,
                   signals, flushes, exitCause, outages>>

\* while not self.shutdown_requested
LoopTest ==
    /\ UNCHANGED <<threadVars, net>>
    /\ pc = "loop_top"
    /\ IF shutdown_requested
       THEN /\ pc' = "shutdown"
            /\ exitCause' = "flag"
            /\ UNCHANGED <<hostIdx, cycles>>
       ELSE /\ cycles < MaxCycles
            /\ pc' = "probe"
            /\ hostIdx' = 1
            /\ cycles' = cycles + 1
            /\ UNCHANGED exitCause
    /\ UNCHANGED <<clock, ticks, host_data, last_results, shutdown_requested,
                   last_write_time, last_cleanup_time, last_alert_time, ct, pending,
                   signals, flushes, outages>>

\* one iteration of for host in self.hosts (lines 609-622)
ProbeHost ==
    /\ UNCHANGED <<threadVars, net>>
    /\ pc = "probe"
    /\ \E d \in {0} \cup ProbeAdvances : ClockRead(d)
    /\ \E result \in TestOutcomes(clock') :
        LET after == ProbeEffect([hd |-> host_data, lr |-> last_results, lat |-> last_alert_time],
                                 HostList[hostIdx], result)
        IN /\ last_results' = after.lr
           /\ host_data' = after.hd
           /\ last_alert_time' = after.lat
    /\ IF hostIdx < Len(HostList)
       THEN hostIdx' = hostIdx + 1 /\ pc' = pc
       ELSE hostIdx' = hostIdx /\ pc' = "timer_write"
    /\ UNCHANGED <<shutdown_requested, last_write_time, last_cleanup_time,
                   ct, pending, cycles, signals, flushes, exitCause, outages>>

\* ct = time.time() and the write timer (lines 623-627); _write_stats may raise OSError
WriteTimer ==
    /\ UNCHANGED <<threadVars, net>>
    /\ pc = "timer_write"
    /\ \E d \in {0} \cup Advances : ClockRead(d)
    /\ ct' = clock'
    /\ IF clock' - last_write_time >= write_interval
       THEN \/ /\ outages' = DetectOutages(host_data)
               /\ last_write_time' = clock'
               /\ pc' = "timer_cleanup"
               /\ UNCHANGED <<pending, exitCause>>
            \/ /\ pc' = "shutdown"
               /\ pending' = "OSError"
               /\ exitCause' = "oserror"
               /\ UNCHANGED <<outages, last_write_time>>
       ELSE /\ pc' = "timer_cleanup"
            /\ UNCHANGED <<outages, last_write_time, pending, exitCause>>
    /\ UNCHANGED <<host_data, last_results, shutdown_requested,
                   last_cleanup_time, last_alert_time, hostIdx, cycles, signals, flushes>>

\* CleanupTimer without the test of line 628: an eviction in every cycle
CleanupTimer_EveryCycle ==
    /\ UNCHANGED <<threadVars, net>>
    /\ pc = "timer_cleanup"
    /\ IF TRUE
       THEN /\ host_data' = CleanupOldData(host_data)
            /\ last_cleanup_time' = ct
       ELSE UNCHANGED <<host_data, last_cleanup_time>>
    /\ pc' = "sleep"
    /\ UNCHANGED <<clock, ticks, last_results, shutdown_requested, last_write_time,
                   last_alert_time, hostIdx, ct, pending, cycles, signals, flushes,
                   exitCause, outages>>

\* the cleanup timer (lines 628-630)
CleanupTimer ==
    /\ UNCHANGED <<threadVars, net>>
    /\ pc = "timer_cleanup"
    /\ IF ct - last_cleanup_time >= CleanupInterval
       THEN /\ host_data' = CleanupOldData(host_data)
            /\ last_cleanup_time' = ct
       ELSE UNCHANGED <<host_data, last_cleanup_time>>
    /\ pc' = "sleep"
    /\ UNCHANGED <<clock, ticks, last_results, shutdown_requested, last_write_time,
                   last_alert_time, hostIdx, ct, pending, cycles, signals, flushes,
                   exitCause, outages>>

\* time.sleep(self.config.interval)
Sleep ==
    /\ UNCHANGED <<threadVars, net>>
    /\ pc = "sleep"
    /\ pc' = "loop_top"
    /\ UNCHANGED <<clock, ticks, host_data, last_results, shutdown_requested,
                   last_write_time, last_cleanup_time, last_alert_time, hostIdx, ct,
                   pending, cycles, signals, flushes, exitCause, outages>>

\* finally: self._shutdown(): the final _write_stats, which may raise OSError
Shutdown ==
    /\ UNCHANGED <<threadVars, net>>
    /\ pc = "shutdown"
    /\ flushes' = flushes + 1
    /\ \/ /\ outages' = DetectOutages(host_data)
          /\ pc' = IF pending = "none" THEN "done" ELSE "raised"
          /\ UNCHANGED pending
       \/ /\ pc' = "raised"
          /\ pending' = "OSError"
          /\ UNCHANGED outages
    /\ UNCHANGED <<clock, ticks, host_data, last_results, shutdown_requested,
                   last_write_time, last_cleanup_time, last_alert_time, hostIdx, ct,
                   cycles, signals, exitCause>>

\* SignalHandler without its else branch: a repeated SIGINT only sets the flag again
SignalHandler_NeverRaises ==
    /\ UNCHANGED <<threadVars, net>>
    /\ pc \notin Terminal
    /\ signals' = signals + 1
    /\ shutdown_requested' = TRUE
    /\ UNCHANGED <<clock, ticks, host_data, last_results, last_write_time,
                   last_cleanup_time, last_alert_time, pc, hostIdx, ct, pending,
                   cycles, flushes, exitCause, outages>>

\* _signal_handler, run by the main thread wherever run() is when SIGINT arrives
SignalHandler ==
    /\ UNCHANGED <<threadVars, net>>
    /\ pc \notin Terminal
    /\ signals' = signals + 1
    /\ IF ~shutdown_requested
       THEN /\ shutdown_requested' = TRUE
            /\ UNCHANGED <<pc, pending, exitCause>>
       ELSE /\ UNCHANGED shutdown_requested
            /\ IF pc \in InTry
               THEN /\ pc' = "shutdown"       \* except KeyboardInterrupt: pass; finally
                    /\ pending' = "none"
                    /\ exitCause' = "abort"
               ELSE /\ pc' = "raised"         \* KeyboardInterrupt leaves run()
                    /\ pending' = "KeyboardInterrupt"
                    /\ UNCHANGED exitCause
    /\ UNCHANGED <<clock, ticks, host_data, last_results, last_write_time,
                   last_cleanup_time, last_alert_time, hostIdx, ct, cycles, flushes,
                   outages>>

Next ==
    \/ RunStart
    \/ LoopTest
    \/ ProbeHost
    \/ WriteTimer
    \/ CleanupTimer
    \/ Sleep
    \/ Shutdown
    \/ SignalHandler

Spec == Init /\ [][Next]_vars

(* ------------ _detect_outages and _cleanup_old_data on stores ----------- *)
\* The stores the two are applied to are built by the probe loop's own ingest,
\* one wall-clock second at a time: during each of ScanWindow consecutive seconds
\* the loop ran 0, 1 or 10 whole cycles, and of a host's probes in a second the
\* first recv[host] succeeded.

\* seconds covered by the stores
ScanWindow == 3
\* cycles the loop may have run within one second
CycleCounts == {1, 10}
\* successes a host may have had among the n probes of one second
ReceivedChoices(n) == IF n = 1 THEN {0, 1} ELSE {2, 3, 7}

SecondPlans ==
    {[n |-> 0, recv |-> [h \in Hosts |-> 0]]}
    \cup UNION {{[n |-> c, recv |-> f] : f \in [Hosts -> ReceivedChoices(c)]} : c \in CycleCounts}

\* the j-th cycle of a second: every host probed once, in the order of self.hosts
RECURSIVE CycleFrom(_, _, _, _, _)
CycleFrom(st, t, j, recv, i) ==
    IF i > Len(HostList) THEN st
    ELSE LET host == HostList[i]
             result == [timestamp |-> t, success |-> j <= recv[host],
                        rtt_ms |-> IF j <= recv[host] THEN <<CHOOSE r \in RttValues : TRUE>> ELSE <<>>]
             next == ProbeEffect(st, host, result)
         \* (the test makes TLC evaluate next before it recurses)
         IN IF next.hd = next.hd THEN CycleFrom(next, t, j, recv, i + 1) ELSE st

\* the cycles j, j + 1, ... of the second t
RECURSIVE CyclesFrom(_, _, _, _)
CyclesFrom(st, t, plan, j) ==
    IF j > plan.n THEN st
    ELSE LET next == CycleFrom(st, t, j, plan.recv, 1)
         IN IF next.hd = next.hd THEN CyclesFrom(next, t, plan, j + 1) ELSE st

StoreInit ==
    /\ clock = StartTime
    /\ ticks = 0
    /\ host_data = [h \in Hosts |-> [r \in Resolutions |-> EmptyStorage]]
    /\ last_results = [h \in Hosts |-> <<>>]
    /\ shutdown_requested = FALSE
    /\ last_write_time = StartTime
    /\ last_cleanup_time = StartTime
    /\ last_alert_time = [h \in Hosts |-> <<>>]
    /\ pc = "loaded"
    /\ hostIdx = 1
    /\ ct = 0
    /\ pending = "none"
    /\ cycles = 0
    /\ signals = 0
    /\ flushes = 0
    /\ exitCause = "none"
    /\ outages = <<>>
    /\ upd = NoUpdate
    /\ clean = NoCleanup
    /\ reader = IdleReader
    /\ net = "none"

\* the probe loop during the next second of the window: plan.n whole cycles
RunSecond ==
    /\ UNCHANGED <<threadVars, net>>
    /\ pc = "loaded"
    /\ ticks < ScanWindow
    /\ \E plan \in SecondPlans :
        LET t == StartTime + ticks
            st == CyclesFrom([hd |-> host_data, lr |-> last_results, lat |-> last_alert_time],
                             t, plan, 1)
        IN /\ host_data' = st.hd
           /\ last_results' = st.lr
           /\ last_alert_time' = st.lat
           /\ clock' = IF plan.n > 0 THEN t ELSE clock
    /\ ticks' = ticks + 1
    /\ UNCHANGED <<shutdown_requested, last_write_time, last_cleanup_time, pc, hostIdx,
                   ct, pending, cycles, signals, flushes, exitCause, outages>>

\* ScanCall that takes the seconds it reports out of the store
ScanCall_Consuming ==
    /\ UNCHANGED <<threadVars, net>>
    /\ pc \in {"loaded", "cleaned", "scanned"}
    /\ outages' = DetectOutages(host_data)
    /\ pc' = IF pc = "scanned" THEN "rescanned" ELSE "scanned"
    /\ host_data' = [h \in Hosts |-> [host_data[h] EXCEPT !["second"] =
                        [k \in {q \in DOMAIN @ : ~Qualifies(@[q])} |-> @[k]]]]
    /\ UNCHANGED <<clock, ticks, last_results, shutdown_requested,
                   last_write_time, last_cleanup_time, last_alert_time, hostIdx, ct,
                   pending, cycles, signals, flushes, exitCause>>

\* a call of _detect_outages(), and a second one on the store as the first left it
ScanCall ==
    /\ UNCHANGED <<threadVars, net>>
    /\ pc \in {"loaded", "cleaned", "scanned"}
    /\ outages' = DetectOutages(host_data)
    /\ pc' = IF pc = "scanned" THEN "rescanned" ELSE "scanned"
    /\ UNCHANGED <<clock, ticks, host_data, last_results, shutdown_requested,
                   last_write_time, last_cleanup_time, last_alert_time, hostIdx, ct,
                   pending, cycles, signals, flushes, exitCause>>

\* a call of _cleanup_old_data()
CleanupCall ==
    /\ UNCHANGED <<threadVars, net>>
    /\ pc = "loaded"
    /\ host_data' = CleanupOldData(host_data)
    /\ pc' = "cleaned"
    /\ UNCHANGED <<clock, ticks, last_results, shutdown_requested, last_write_time,
                   last_cleanup_time, last_alert_time, hostIdx, ct, pending, cycles,
                   signals, flushes, exitCause, outages>>

\* sum(f of s for s in sd.values()) over the keys of a sequence
RECURSIVE SumField(_, _, _)
SumField(sd, keys, f) ==
    IF keys = <<>> THEN 0
    ELSE (CASE f = "sent" -> sd[Head(keys)].sent
            [] f = "received" -> sd[Head(keys)].received
            [] f = "success_count" -> sd[Head(keys)].success_count)
         + SumField(sd, Tail(keys), f)

\* the sum of field f over the second buckets of one host
HostTotal(hd, host, f) ==
    SumField(hd[host]["second"], SortedKeys(DOMAIN hd[host]["second"]), f)

\* total_sent and total_received of _get_web_stats: the hosts from number i on
RECURSIVE TotalFrom(_, _, _)
TotalFrom(hd, i, f) ==
    IF i > Len(HostList) THEN 0
    ELSE HostTotal(hd, HostList[i], f) + TotalFrom(hd, i + 1, f)

\* total_success and total_tests of every host (lines 471-475)
HostsInfo(hd) ==
    [i \in 1..Len(HostList) |-> [name |-> HostList[i],
                                 total_success |-> HostTotal(hd, HostList[i], "success_count"),
                                 total_tests |-> HostTotal(hd, HostList[i], "sent")]]

\* 'success_rate' of a hosts_info entry, in percent, as an exact fraction
success_rate(entry) ==
    IF entry.total_tests > 0
    THEN [num |-> entry.total_success * 100, den |-> entry.total_tests]
    ELSE [num |-> 0, den |-> 1]

\* the locals of _get_web_stats at its return statement when nothing else ran
\* during the call; all is the list _detect_outages returned
SnapshotLocals(hd) ==
    [IdleReader EXCEPT !.pc = "returned",
                       !.total_sent = TotalFrom(hd, 1, "sent"),
                       !.total_received = TotalFrom(hd, 1, "received"),
                       !.rates = HostsInfo(hd),
                       !.all = DetectOutages(hd),
                       !.requests = 1]

\* a call of _get_web_stats()
SnapshotCall ==
    /\ pc \in {"loaded", "cleaned"}
    /\ reader' = SnapshotLocals(host_data)
    /\ pc' = "snapshot"
    /\ UNCHANGED <<clock, ticks, host_data, last_results, shutdown_requested,
                   last_write_time, last_cleanup_time, last_alert_time, hostIdx, ct,
                   pending, cycles, signals, flushes, exitCause, outages, upd, clean, net>>

\* ExportCall that drops the second buckets it has written
ExportCall_Draining ==
    /\ UNCHANGED <<threadVars, net>>
    /\ pc \in {"loaded", "cleaned"}
    /\ outages' = DetectOutages(host_data)
    /\ pc' = "exported"
    /\ host_data' = [h \in Hosts |-> [host_data[h] EXCEPT !["second"] = EmptyStorage]]
    /\ UNCHANGED <<clock, ticks, last_results, shutdown_requested,
                   last_write_time, last_cleanup_time, last_alert_time, hostIdx, ct,
                   pending, cycles, signals, flushes, exitCause>>

\* _write_stats() and _print_stats() (lines 625-626): the files are rewritten
\* from the store, outages.txt from _detect_outages()
ExportCall ==
    /\ UNCHANGED <<threadVars, net>>
    /\ pc \in {"loaded", "cleaned"}
    /\ outages' = DetectOutages(host_data)
    /\ pc' = "exported"
    /\ UNCHANGED <<clock, ticks, host_data, last_results, shutdown_requested,
                   last_write_time, last_cleanup_time, last_alert_time, hostIdx, ct,
                   pending, cycles, signals, flushes, exitCause>>

StoreNext == RunSecond \/ ScanCall \/ CleanupCall \/ SnapshotCall \/ ExportCall

SpecStore == StoreInit /\ [][StoreNext]_vars

(* -------------- the probe loop beside a dashboard thread --------------- *)
\* WebDashboard.start runs Flask in a daemon thread; a request to /api/stats calls
\* _get_web_stats there while the main thread is anywhere in run().  No lock is
\* taken on either side, so the interpreter may switch threads between any two
\* statements: _update_stats and _cleanup_old_data are taken one statement at a
\* time, _get_web_stats one dictionary access at a time.  A dictionary iterator
\* remembers the size of its dictionary and raises RuntimeError from next() when
\* the size has changed; it walks the entries in insertion order, which is key
\* order here because the clock never goes back.

\* dashboard requests served
MaxRequests == 1

\* seconds a probe takes beside the dashboard thread: it answers within the
\* second; the clock moves between the cycles (the reading of WriteTimer)
ProbeDelays == {0}

\* the thread of the dashboard exists and the process has not ended
ReaderRuns == pc \notin ({"start"} \cup Terminal)

\* the bucket the for loop of _update_stats is at: <<host, resolution, key>>
UpdTarget ==
    LET k == UpdateKeys(upd.result[1])[upd.idx]
    IN <<HostList[hostIdx], k[1], k[2]>>

\* the loop of _update_stats goes on to its next (time_key, storage), or returns
UpdAdvance ==
    IF upd.idx < Len(UpdateKeys(upd.result[1]))
    THEN upd' = [upd EXCEPT !.idx = @ + 1, !.stmt = "touch"] /\ pc' = pc
    ELSE upd' = NoUpdate /\ pc' = "alert"

\* what a statement of _update_stats leaves alone
UpdFrame ==
    UNCHANGED <<clock, ticks, last_results, shutdown_requested, last_write_time,
                last_cleanup_time, last_alert_time, hostIdx, ct, pending, cycles,
                signals, flushes, exitCause, outages, clean, reader, net>>

\* result = self._test_host(host); self.last_results[host.name] = result (lines 610-611)
ProbeCall ==
    /\ pc = "probe"
    /\ \E d \in ProbeDelays : ClockRead(d)
    /\ \E result \in TestOutcomes(clock') :
        /\ last_results' = [last_results EXCEPT ![HostList[hostIdx]] = <<result>>]
        /\ upd' = [result |-> <<result>>, idx |-> 1, stmt |-> "touch"]
    /\ pc' = "update"
    /\ UNCHANGED <<host_data, shutdown_requested, last_write_time, last_cleanup_time,
                   last_alert_time, hostIdx, ct, pending, cycles, signals, flushes,
                   exitCause, outages, clean, reader, net>>

\* lines 534-536: if time_key not in storage: storage[time_key] = AggregatedStats()
UpdTouch ==
    /\ pc = "update" /\ upd.stmt = "touch"
    /\ host_data' = [host_data EXCEPT ![UpdTarget[1]][UpdTarget[2]] = Touch(@, UpdTarget[3])]
    /\ upd' = [upd EXCEPT !.stmt = "sent"]
    /\ pc' = pc
    /\ UpdFrame

\* line 537: stats.sent += 1
UpdSent ==
    /\ pc = "update" /\ upd.stmt = "sent"
    /\ host_data' = [host_data EXCEPT ![UpdTarget[1]][UpdTarget[2]][UpdTarget[3]] = IncSent(@)]
    /\ upd' = [upd EXCEPT !.stmt = IF upd.result[1].success THEN "received" ELSE "fail"]
    /\ pc' = pc
    /\ UpdFrame

\* line 539: stats.received += 1
UpdReceived ==
    /\ pc = "update" /\ upd.stmt = "received"
    /\ host_data' = [host_data EXCEPT ![UpdTarget[1]][UpdTarget[2]][UpdTarget[3]] = IncReceived(@)]
    /\ upd' = [upd EXCEPT !.stmt = "success"]
    /\ pc' = pc
    /\ UpdFrame

\* line 540: stats.success_count += 1
UpdSuccess ==
    /\ pc = "update" /\ upd.stmt = "success"
    /\ host_data' = [host_data EXCEPT ![UpdTarget[1]][UpdTarget[2]][UpdTarget[3]] = IncSuccess(@)]
    /\ IF upd.result[1].rtt_ms # <<>>
       THEN upd' = [upd EXCEPT !.stmt = "rtt"] /\ pc' = pc
       ELSE UpdAdvance
    /\ UpdFrame

\* lines 541-542: stats.rtts.append(result.rtt_ms)
UpdRtt ==
    /\ pc = "update" /\ upd.stmt = "rtt"
    /\ host_data' = [host_data EXCEPT ![UpdTarget[1]][UpdTarget[2]][UpdTarget[3]] =
                                           AppendRtt(@, upd.result[1])]
    /\ UpdAdvance
    /\ UpdFrame

\* line 544: stats.fail_count += 1
UpdFail ==
    /\ pc = "update" /\ upd.stmt = "fail"
    /\ host_data' = [host_data EXCEPT ![UpdTarget[1]][UpdTarget[2]][UpdTarget[3]] = IncFail(@)]
    /\ UpdAdvance
    /\ UpdFrame

\* lines 613-622: the alert check, then the for loop of run() goes on
AlertCheck ==
    /\ pc = "alert"
    /\ last_alert_time' = AlertAfter(last_alert_time, host_data, HostList[hostIdx],
                                     last_results[HostList[hostIdx]][1], clock)
    /\ IF hostIdx < Len(HostList)
       THEN hostIdx' = hostIdx + 1 /\ pc' = "probe"
       ELSE hostIdx' = hostIdx /\ pc' = "timer_write"
    /\ UNCHANGED <<clock, ticks, host_data, last_results, shutdown_requested,
                   last_write_time, last_cleanup_time, ct, pending, cycles, signals,
                   flushes, exitCause, outages, upd, clean, reader, net>>

\* sorted(sd.keys())[:len(sd) - max_seconds], or nothing when the if of line 574 fails
EvictSeq(sd) == SortedKeys(EvictKeys(sd))

\* line 628, and _cleanup_old_data reaching its first host
CleanupBegin ==
    /\ pc = "timer_cleanup"
    /\ IF ct - last_cleanup_time >= CleanupInterval
       THEN /\ pc' = "cleanup"
            /\ clean' = [host |-> 1, keys |-> EvictSeq(host_data[HostList[1]]["second"])]
       ELSE /\ pc' = "sleep"
            /\ UNCHANGED clean
    /\ UNCHANGED <<clock, ticks, host_data, last_results, shutdown_requested,
                   last_write_time, last_cleanup_time, last_alert_time, hostIdx, ct,
                   pending, cycles, signals, flushes, exitCause, outages, upd, reader, net>>

\* line 576: del sd[key]; a reader that holds the deleted bucket keeps the object
CleanupDel ==
    /\ pc = "cleanup" /\ clean.keys # <<>>
    /\ LET h == HostList[clean.host]
           k == Head(clean.keys)
           sd == host_data[h]["second"]
       IN /\ host_data' = [host_data EXCEPT ![h]["second"] = [q \in (DOMAIN sd) \ {k} |-> sd[q]]]
          /\ reader' = IF reader.ref = <<h, k>> /\ reader.det = <<>>
                       THEN [reader EXCEPT !.det = <<sd[k]>>]
                       ELSE reader
    /\ clean' = [clean EXCEPT !.keys = Tail(@)]
    /\ UNCHANGED <<clock, ticks, last_results, shutdown_requested, last_write_time,
                   last_cleanup_time, last_alert_time, pc, hostIdx, ct, pending, cycles,
                   signals, flushes, exitCause, outages, upd, net>>

\* the for loop of _cleanup_old_data goes on to its next host, or returns (line 630)
CleanupNextHost ==
    /\ pc = "cleanup" /\ clean.keys = <<>>
    /\ IF clean.host < Len(HostList)
       THEN /\ clean' = [host |-> clean.host + 1,
                         keys |-> EvictSeq(host_data[HostList[clean.host + 1]]["second"])]
            /\ UNCHANGED <<pc, last_cleanup_time>>
       ELSE /\ clean' = NoCleanup
            /\ last_cleanup_time' = ct
            /\ pc' = "sleep"
    /\ UNCHANGED <<clock, ticks, host_data, last_results, shutdown_requested,
                   last_write_time, last_alert_time, hostIdx, ct, pending, cycles,
                   signals, flushes, exitCause, outages, upd, reader, net>>

(* ---------------------------- _get_web_stats --------------------------- *)
\* the frame of a step of the dashboard thread
ReaderFrame ==
    UNCHANGED <<clock, ticks, host_data, last_results, shutdown_requested,
                last_write_time, last_cleanup_time, last_alert_time, pc, hostIdx, ct,
                pending, cycles, signals, flushes, exitCause, outages, upd, clean, net>>

\* the dictionary the reader's loop is over
ReaderDict(res) == host_data[HostList[reader.host]][res]

\* the keys a dictionary iterator has not yielded yet
Remaining(storage, last) ==
    {k \in DOMAIN storage : last = <<>> \/ KeyLess(last[1], k)}

\* the key next() yields
NextKey(storage, last) ==
    CHOOSE k \in Remaining(storage, last) : \A o \in Remaining(storage, last) : o = k \/ KeyLess(k, o)

\* next() finds the dictionary resized since the iterator was made
Resized(storage) == Cardinality(DOMAIN storage) # reader.used

\* iter() on the dictionary of resolution res of host number h
IterOn(r, h, res, to) ==
    [r EXCEPT !.pc = to, !.host = h, !.last = <<>>, !.ref = <<>>, !.det = <<>>,
              !.used = Cardinality(DOMAIN host_data[HostList[h]][res])]

\* an exception leaves _get_web_stats: the request fails (Flask answers 500) and
\* the locals of the call are gone
Fails(r, e) == [IdleReader EXCEPT !.pc = "error", !.err = e, !.requests = r.requests + 1]

\* a request arrives: line 449-454, up to iter(data['second'].values()) of the first host
ReaderStart ==
    /\ ReaderRuns
    /\ reader.pc \in {"idle", "error"}
    /\ reader.requests < MaxRequests
    /\ reader' = IterOn([IdleReader EXCEPT !.requests = reader.requests], 1, "second", "sec_iter")
    /\ ReaderFrame

\* line 454-455: next() of the second loop, then total_sent += stats.sent
ReaderSecNext ==
    /\ ReaderRuns
    /\ reader.pc = "sec_iter"
    /\ LET sd == ReaderDict("second")
       IN reader' =
            IF Resized(sd) THEN Fails(reader, "RuntimeError")
            ELSE IF Remaining(sd, reader.last) # {}
                 THEN LET k == NextKey(sd, reader.last)
                      IN [reader EXCEPT !.last = <<k>>, !.ref = <<HostList[reader.host], k>>,
                                        !.det = <<>>, !.seen = <<sd[k]>>,
                                        !.total_sent = @ + sd[k].sent, !.pc = "sec_recv"]
                 ELSE IterOn(reader, reader.host, "minute", "min_iter")
    /\ ReaderFrame

\* lines 456-457: total_received += stats.received (and the read of stats.rtts)
ReaderSecRecv ==
    /\ ReaderRuns
    /\ reader.pc = "sec_recv"
    /\ LET stats == IF reader.det # <<>> THEN reader.det[1]
                    ELSE host_data[reader.ref[1]]["second"][reader.ref[2]]
       IN reader' = [reader EXCEPT !.total_received = @ + stats.received, !.seen = <<>>,
                                   !.ref = <<>>, !.det = <<>>, !.pc = "sec_iter"]
    /\ ReaderFrame

\* lines 458-463: one turn of the minute loop
ReaderMinNext ==
    /\ ReaderRuns
    /\ reader.pc = "min_iter"
    /\ LET md == ReaderDict("minute")
       IN reader' =
            IF Resized(md) THEN Fails(reader, "RuntimeError")
            ELSE IF Remaining(md, reader.last) # {}
                 THEN [reader EXCEPT !.last = <<NextKey(md, reader.last)>>]
                 ELSE IterOn(reader, reader.host, "hour", "hour_iter")
    /\ ReaderFrame

\* lines 464-469: one turn of the hour loop; after it the next host, or line 471
ReaderHourNext ==
    /\ ReaderRuns
    /\ reader.pc = "hour_iter"
    /\ LET hd == ReaderDict("hour")
       IN reader' =
            IF Resized(hd) THEN Fails(reader, "RuntimeError")
            ELSE IF Remaining(hd, reader.last) # {}
                 THEN [reader EXCEPT !.last = <<NextKey(hd, reader.last)>>]
                 ELSE IF reader.host < Len(HostList)
                      THEN IterOn(reader, reader.host + 1, "second", "sec_iter")
                      ELSE IterOn([reader EXCEPT !.succ = 0], 1, "second", "rate_succ")
    /\ ReaderFrame

\* line 474: one turn of sum(s.success_count for s in host_data.values())
ReaderRateSucc ==
    /\ ReaderRuns
    /\ reader.pc = "rate_succ"
    /\ LET sd == ReaderDict("second")
       IN reader' =
            IF Resized(sd) THEN Fails(reader, "RuntimeError")
            ELSE IF Remaining(sd, reader.last) # {}
                 THEN LET k == NextKey(sd, reader.last)
                      IN [reader EXCEPT !.last = <<k>>, !.succ = @ + sd[k].success_count]
                 ELSE IterOn([reader EXCEPT !.tests = 0], reader.host, "second", "rate_tests")
    /\ ReaderFrame

\* line 475: one turn of sum(s.sent for s in host_data.values()); after it the
\* hosts_info entry (lines 476-481), then the next host or _detect_outages
ReaderRateTests ==
    /\ ReaderRuns
    /\ reader.pc = "rate_tests"
    /\ LET sd == ReaderDict("second")
       IN reader' =
            IF Resized(sd) THEN Fails(reader, "RuntimeError")
            ELSE IF Remaining(sd, reader.last) # {}
                 THEN LET k == NextKey(sd, reader.last)
                      IN [reader EXCEPT !.last = <<k>>, !.tests = @ + sd[k].sent]
                 ELSE LET r == [reader EXCEPT !.rates = Append(@, [name |-> HostList[reader.host],
                                                                   total_success |-> reader.succ,
                                                                   total_tests |-> reader.tests])]
                      IN IF reader.host < Len(HostList)
                         THEN IterOn([r EXCEPT !.succ = 0], reader.host + 1, "second", "rate_succ")
                         ELSE [r EXCEPT !.pc = "det_sort", !.host = 1, !.last = <<>>]
    /\ ReaderFrame

\* line 498: sorted(second_data.keys()) of the next host of _detect_outages
ReaderDetSort ==
    /\ ReaderRuns
    /\ reader.pc = "det_sort"
    /\ reader' = [reader EXCEPT !.keys = SortedKeys(DOMAIN ReaderDict("second")),
                                !.pos = 1, !.bad = <<>>, !.pc = "det_read"]
    /\ ReaderFrame

\* lines 499-501: stats = second_data[key], which raises KeyError for a key that
\* is gone, and the test of the bucket
ReaderDetRead ==
    /\ ReaderRuns
    /\ reader.pc = "det_read"
    /\ reader.pos <= Len(reader.keys)
    /\ LET sd == ReaderDict("second")
           k == reader.keys[reader.pos]
       IN reader' =
            IF k \notin DOMAIN sd THEN Fails(reader, "KeyError")
            ELSE [reader EXCEPT !.pos = @ + 1,
                                !.bad = IF Qualifies(sd[k]) THEN Append(@, BadSecond(sd, k)) ELSE @]
    /\ ReaderFrame

\* the dictionary _get_web_stats returns (lines 482-491) once _detect_outages
\* has walked its last host
Response(r) ==
    [total_sent |-> r.total_sent,
     total_received |-> r.total_received,
     total_lost |-> r.total_sent - r.total_received,
     packet_loss_percent |->
        IF r.total_sent > 0
        THEN [num |-> (r.total_sent - r.total_received) * 100, den |-> r.total_sent]
        ELSE [num |-> 0, den |-> 1],
     hosts |-> r.rates,
     outages |-> SortByStartDesc(r.all \o WalkBad(HostList[r.host], r.bad, 1, <<>>))]

\* lines 502-526 for one host, then the next host, or the return of
\* _get_web_stats with Response(reader), after which its locals are gone
ReaderDetHostDone ==
    /\ ReaderRuns
    /\ reader.pc = "det_read"
    /\ reader.pos > Len(reader.keys)
    /\ LET all == reader.all \o WalkBad(HostList[reader.host], reader.bad, 1, <<>>)
       IN reader' =
            IF reader.host < Len(HostList)
            THEN [reader EXCEPT !.all = all, !.host = @ + 1, !.pc = "det_sort"]
            ELSE [IdleReader EXCEPT !.requests = reader.requests + 1]
    /\ ReaderFrame

ThreadsNext ==
    \/ RunStart
    \/ LoopTest
    \/ ProbeCall
    \/ UpdTouch
    \/ UpdSent
    \/ UpdReceived
    \/ UpdSuccess
    \/ UpdRtt
    \/ UpdFail
    \/ AlertCheck
    \/ WriteTimer
    \/ CleanupBegin
    \/ CleanupDel
    \/ CleanupNextHost
    \/ Sleep
    \/ Shutdown
    \/ ReaderStart
    \/ ReaderSecNext
    \/ ReaderSecRecv
    \/ ReaderMinNext
    \/ ReaderHourNext
    \/ ReaderRateSucc
    \/ ReaderRateTests
    \/ ReaderDetSort
    \/ ReaderDetRead
    \/ ReaderDetHostDone

SpecThreads == Init /\ [][ThreadsNext]_vars

(* ======================================================================= *)
(*                               Properties                                *)
(* ======================================================================= *)
\* every bucket of every host at every resolution, as <<host, resolution, key>>
AllBuckets(hd) ==
    {<<h, r, k>> : h \in Hosts, r \in Resolutions,
                   k \in UNION {DOMAIN hd[g][q] : g \in Hosts, q \in Resolutions}}
BucketsOf(hd) == {b \in AllBuckets(hd) : b[3] \in DOMAIN hd[b[1]][b[2]]}

\* C1: after any sequence of ingests and evictions every bucket of every host at
\* every resolution has received <= sent, sent = success_count + fail_count and
\* received = success_count.
C1_BucketInvariant ==
    \A b \in BucketsOf(host_data) :
        LET st == host_data[b[1]][b[2]][b[3]]
        IN /\ st.received <= st.sent
           /\ st.sent = st.success_count + st.fail_count
           /\ st.received = st.success_count

\* sum of a field over all second buckets of a host
SecondSent(hd, h) == SumOver(hd[h]["second"], SortedKeys(DOMAIN hd[h]["second"]), 1)
MinuteSent(hd, h) == SumOver(hd[h]["minute"], SortedKeys(DOMAIN hd[h]["minute"]), 1)

\* some second bucket of host h has been evicted
Evicted(hd, h) == SecondSent(hd, h) < MinuteSent(hd, h)

\* C1 witness: buckets that took both successes and failures, after an eviction
C1_Witness ==
    \E h \in Hosts :
        /\ Evicted(host_data, h)
        /\ \E k \in DOMAIN host_data[h]["minute"] :
              /\ host_data[h]["minute"][k].success_count >= 1
              /\ host_data[h]["minute"][k].fail_count >= 1

\* a step that is a call of _cleanup_old_data
CleanupStep == pc = "loaded" /\ pc' = "cleaned"

\* C4: after _cleanup_old_data every host keeps min(n, max_seconds) second keys,
\* all of them keys it had before, and every removed key is older than every kept
\* one: with n > max_seconds the oldest n - max_seconds go, otherwise none.
C4_EvictKeepsNewest ==
    [][CleanupStep =>
        \A h \in Hosts :
            LET old == DOMAIN host_data[h]["second"]
                new == DOMAIN host_data'[h]["second"]
                n == Cardinality(old)
            IN /\ new \subseteq old
               /\ Cardinality(new) <= max_seconds
               /\ Cardinality(new) = IF n > max_seconds THEN max_seconds ELSE n
               /\ \A k \in new, o \in old \ new : Strptime(o) < Strptime(k)]_vars

\* C4 witness: a cleanup has removed the two oldest of the three second keys of a
\* host: the key of the last second of the window is left, its minute bucket still
\* counts the probes of the removed seconds
C4_Witness ==
    /\ pc = "cleaned"
    /\ \E h \in Hosts :
          /\ DOMAIN host_data[h]["second"] = {FmtSecond(StartTime + ScanWindow - 1)}
          /\ MinuteSent(host_data, h) >= SecondSent(host_data, h) + ScanWindow - 1
          /\ max_seconds < ScanWindow

\* a step of run() that ingests one result
IngestStep == pc = "probe" /\ host_data' # host_data

\* the bucket a result adds to, or a zeroed one when the key is new
OldOrZero(storage, key) == IF key \in DOMAIN storage THEN storage[key] ELSE NewStats

\* key is timestamp t truncated to a resolution of width w seconds
TruncatedTo(key, t, w) ==
    /\ Strptime(key) <= t
    /\ t < Strptime(key) + w
    /\ Strptime(key) % w = 0

Width(r) == IF r = "second" THEN 1 ELSE IF r = "minute" THEN SecPerMin ELSE SecPerHour

\* C8: one ingest changes exactly the second, minute and hour bucket of the probed
\* host whose key is the timestamp truncated to that resolution (created zeroed if
\* absent): sent + 1; on success received + 1, success_count + 1 and the RTT
\* appended; on failure fail_count + 1 only.  No other bucket changes.
C8_IngestEffect ==
    [][IngestStep =>
        LET host == HostList[hostIdx]
            result == last_results'[host][1]
        IN \A h \in Hosts, r \in Resolutions :
            LET old == host_data[h][r]
                new == host_data'[h][r]
                hit == {k \in DOMAIN new : h = host /\ TruncatedTo(k, result.timestamp, Width(r))}
            IN /\ DOMAIN old \subseteq DOMAIN new
               /\ (DOMAIN new) \ (DOMAIN old) \subseteq hit
               /\ Cardinality(hit) = IF h = host THEN 1 ELSE 0
               /\ \A k \in (DOMAIN new) \ hit : new[k] = old[k]
               /\ \A k \in hit :
                    LET o == OldOrZero(old, k)
                    IN /\ new[k].sent = o.sent + 1
                       /\ IF result.success
                          THEN /\ new[k].received = o.received + 1
                               /\ new[k].success_count = o.success_count + 1
                               /\ new[k].fail_count = o.fail_count
                               /\ new[k].rtts = IF result.rtt_ms # <<>>
                                                THEN o.rtts \o result.rtt_ms
                                                ELSE o.rtts
                          ELSE /\ new[k].received = o.received
                               /\ new[k].success_count = o.success_count
                               /\ new[k].fail_count = o.fail_count + 1
                               /\ new[k].rtts = o.rtts]_vars

\* C8 witness: a host that took a failure in one second and a success in the next,
\* both in the same minute and hour
C8_Witness ==
    \E h \in Hosts :
        /\ Cardinality(DOMAIN host_data[h]["hour"]) = 1
        /\ Cardinality(DOMAIN host_data[h]["minute"]) = 1
        /\ Cardinality(DOMAIN host_data[h]["second"]) = 2
        /\ \E k \in DOMAIN host_data[h]["hour"] :
              /\ host_data[h]["hour"][k].success_count = 1
              /\ host_data[h]["hour"][k].fail_count = 1
              /\ Len(host_data[h]["hour"][k].rtts) = 1
        /\ \E k \in DOMAIN host_data[h]["second"] : host_data[h]["second"][k].fail_count = 1
        /\ \E k \in DOMAIN host_data[h]["second"] : host_data[h]["second"][k].success_count = 1

\* C9: once the first SIGINT has set shutdown_requested no new probe cycle starts;
\* the loop is left for the flag only at its top (a cycle in progress is left only
\* by a second SIGINT or a failed export); the final flush of _shutdown runs
\* exactly once; nothing is evicted once the loop is left.
C9_CooperativeStop ==
    /\ [][shutdown_requested => ~(pc = "loop_top" /\ pc' = "probe")]_vars
    /\ [][(pc \in InTry \ {"loop_top"} /\ pc' \notin InTry)
            => \/ shutdown_requested /\ signals' = signals + 1
               \/ pc = "timer_write" /\ pending' = "OSError"]_vars
    /\ [][(pc = "loop_top" /\ pc' \notin InTry /\ signals' = signals)
            => shutdown_requested /\ pc' = "shutdown"]_vars
    /\ [](flushes <= 1)
    /\ []((pc \in Terminal /\ signals <= 1) => flushes = 1)
    /\ [][pc \notin InTry
            => host_data' = host_data /\ last_cleanup_time' = last_cleanup_time]_vars

\* C9 witness: after one SIGINT one whole cycle was run, the loop was left at its
\* top and the final flush has run once
C9_Witness ==
    /\ pc = "done"
    /\ signals = 1
    /\ exitCause = "flag"
    /\ flushes = 1
    /\ cycles = 1
    /\ \A h \in Hosts : last_results[h] # <<>>

\* C10: a SIGINT that finds shutdown_requested already set raises at once: run()
\* goes straight to its finally clause (or is left, outside the try block), and no
\* probe, ingest, alert, export timer or eviction is carried out any more.
C10_ForcedAbort ==
    /\ [][(shutdown_requested /\ signals' = signals + 1)
            => pc' = IF pc \in InTry THEN "shutdown" ELSE "raised"]_vars
    /\ [][signals >= 2
            => /\ host_data' = host_data
               /\ last_results' = last_results
               /\ last_alert_time' = last_alert_time
               /\ last_write_time' = last_write_time
               /\ last_cleanup_time' = last_cleanup_time
               /\ cycles' = cycles
               /\ pc' \notin InTry]_vars

\* C10 witness: the second SIGINT came after the first host of a cycle was probed
\* and before the second one was: the second host was never probed
C10_Witness ==
    /\ signals = 2
    /\ exitCause = "abort"
    /\ pc = "done"
    /\ last_results[HostList[1]] # <<>>
    /\ last_results[HostList[2]] = <<>>

(* ------------------------- the scan (SpecStore) ------------------------- *)
\* a second bucket with sent > 0 and packet loss above the threshold
Bad(st) == st.sent > 0 /\ (st.sent - st.received) * ThresholdDen > ThresholdNum * st.sent
\* the qualifying second keys of host h
QualKeys(h) == {k \in DOMAIN host_data[h]["second"] : Bad(host_data[h]["second"][k])}
\* the positions in outages of the episodes of host h
EpisodesOf(h) == {i \in 1..Len(outages) : outages[i].host = h}
\* episode e spans second key k
Covers(e, k) == Strptime(e.start) <= Strptime(k) /\ Strptime(k) <= Strptime(e.end)
\* the second keys of host h that episode e spans
Spanned(h, e) == {k \in DOMAIN host_data[h]["second"] : Covers(e, k)}
\* no qualifying second of host h lies strictly between keys k1 and k2
NoneBetween(h, k1, k2) ==
    \A q \in QualKeys(h) : ~(Strptime(k1) < Strptime(q) /\ Strptime(q) < Strptime(k2))
\* some second strictly between k1 and k2 is good or has no bucket
GapBetween(h, k1, k2) ==
    \E t \in (Strptime(k1) + 1)..(Strptime(k2) - 1) :
        \A q \in QualKeys(h) : Strptime(q) # t

\* C5: two qualifying seconds of a host exactly 1 second apart are in the same
\* episode; two qualifying seconds 2 or more apart with no qualifying second
\* between them are in two different episodes.
C5_MergingLaw ==
    pc = "scanned" =>
        \A h \in Hosts : \A k1, k2 \in QualKeys(h) :
            /\ Strptime(k2) - Strptime(k1) = 1
                 => \E i \in EpisodesOf(h) : Covers(outages[i], k1) /\ Covers(outages[i], k2)
            /\ (Strptime(k2) - Strptime(k1) >= 2 /\ NoneBetween(h, k1, k2))
                 => /\ \E i \in EpisodesOf(h) : Covers(outages[i], k1)
                    /\ \E i \in EpisodesOf(h) : Covers(outages[i], k2)
                    /\ ~\E i \in EpisodesOf(h) : Covers(outages[i], k1) /\ Covers(outages[i], k2)

\* C5 witness: a scan of a store where one host has two qualifying seconds 1 apart
\* (across the hour boundary) and another has two that are 2 apart with no
\* qualifying second between them
C5_Witness ==
    /\ pc = "scanned"
    /\ \E h \in Hosts : QualKeys(h) = {FmtSecond(StartTime + 1), FmtSecond(StartTime + 2)}
    /\ \E h \in Hosts : QualKeys(h) = {FmtSecond(StartTime), FmtSecond(StartTime + 2)}

\* C6: the episodes of one host neither overlap nor touch (there are at least 2
\* seconds from the end of one to the start of the next), and two qualifying seconds
\* with a good or missing second between them are never in the same episode.
C6_NonOverlappingMaximal ==
    pc = "scanned" =>
        \A h \in Hosts :
            /\ \A i, j \in EpisodesOf(h) :
                  i # j => \/ Strptime(outages[j].start) - Strptime(outages[i].end) >= 2
                           \/ Strptime(outages[i].start) - Strptime(outages[j].end) >= 2
            /\ \A i \in EpisodesOf(h) : Strptime(outages[i].start) <= Strptime(outages[i].end)
            /\ \A k1, k2 \in QualKeys(h) :
                  GapBetween(h, k1, k2)
                    => ~\E i \in EpisodesOf(h) : Covers(outages[i], k1) /\ Covers(outages[i], k2)

\* C6 witness: a scan that returned two episodes of one host, with a second that
\* has no bucket between them
C6_Witness ==
    /\ pc = "scanned"
    /\ \E h \in Hosts :
          /\ Cardinality(EpisodesOf(h)) = 2
          /\ QualKeys(h) = {FmtSecond(StartTime), FmtSecond(StartTime + 2)}
          /\ FmtSecond(StartTime + 1) \notin DOMAIN host_data[h]["second"]

\* bucket of host h at second t has these counters
HasCounts(h, t, sent, received) ==
    /\ FmtSecond(t) \in DOMAIN host_data[h]["second"]
    /\ host_data[h]["second"][FmtSecond(t)].sent = sent
    /\ host_data[h]["second"][FmtSecond(t)].received = received

\* C7: an episode's sent and received are the sums over the second buckets it
\* merged, its duration is their number and its loss percent is
\* (sent - received) / sent * 100 of those sums; seconds T (10 sent, 3 received) and
\* T+1 (10 sent, 2 received) give one episode T..T+1, duration 2, loss 75%.
C7_EpisodeTotals ==
    pc = "scanned" =>
        /\ \A i \in 1..Len(outages) :
              LET e == outages[i]
                  sd == host_data[e.host]["second"]
                  ks == SortedKeys(Spanned(e.host, e))
              IN /\ e.sent = SumOver(sd, ks, 1)
                 /\ e.received = SumOver(sd, ks, 2)
                 /\ e.duration = Len(ks)
                 /\ e.sent > 0
                 /\ e.loss_percent.num * e.sent = (e.sent - e.received) * 100 * e.loss_percent.den
        /\ \A h \in Hosts : \A t \in StartTime..(StartTime + ScanWindow - 2) :
              (/\ HasCounts(h, t, 10, 3)
               /\ HasCounts(h, t + 1, 10, 2)
               /\ \A q \in QualKeys(h) : Strptime(q) \in {t, t + 1})
              => /\ Cardinality(EpisodesOf(h)) = 1
                 /\ \A i \in EpisodesOf(h) :
                       /\ outages[i].start = FmtSecond(t)
                       /\ outages[i].end = FmtSecond(t + 1)
                       /\ outages[i].duration = 2
                       /\ outages[i].sent = 20
                       /\ outages[i].received = 5
                       /\ outages[i].loss_percent.num = 75 * outages[i].loss_percent.den

\* C7 witness: a scan of a store where a host has 10 sent / 3 received in one
\* second and 10 sent / 2 received in the next, and no other qualifying second
C7_Witness ==
    /\ pc = "scanned"
    /\ \E h \in Hosts : \E t \in StartTime..(StartTime + ScanWindow - 2) :
          /\ HasCounts(h, t, 10, 3)
          /\ HasCounts(h, t + 1, 10, 2)
          /\ \A q \in QualKeys(h) : Strptime(q) \in {t, t + 1}
          /\ Cardinality(EpisodesOf(h)) = 1

(* ------------------------ the dashboard thread -------------------------- *)
\* the request of the dashboard has just read stats.sent of a bucket
ReaderHolds == reader.pc = "sec_recv" /\ reader.seen # <<>>

\* C2: a reader running beside the probe loop never observes a bucket that is
\* partly updated: whenever _get_web_stats reads a bucket, the bucket's sent
\* equals its success_count + fail_count.
C2_NoPartialBucket ==
    ReaderHolds => reader.seen[1].sent = reader.seen[1].success_count + reader.seen[1].fail_count

\* C3: _get_web_stats and _detect_outages called on the dashboard thread beside
\* ingest and eviction always return: no request ends in an exception raised by
\* a dictionary that was resized under its iterator or by a key evicted between
\* sorted(keys) and the lookup.
C3_ReadersComplete == reader.pc # "error"

\* the two ways a request fails
C3_ResizedUnderIterator == ~(reader.pc = "error" /\ reader.err = "RuntimeError")

C3_EvictedBeforeLookup == ~(reader.pc = "error" /\ reader.err = "KeyError")

(* ------------------------- a failed export ------------------------------ *)
\* the _write_stats called from the loop (line 625) raises OSError
ExportFails == pc = "timer_write" /\ pending = "none" /\ pending' = "OSError"

\* C11: a file-system error raised by a periodic export does not end the run:
\* run() is still in its loop after the failed export, with every store as it
\* was before, so that the next export can write everything.
C11_ExportFailureSurvived ==
    [][ExportFails => (pc' \in InTry /\ host_data' = host_data)]_vars

(* ------------------------ the probe, by its cause ------------------------ *)
\* what the network does to a probe
NetConditions == {"answer", "timeout", "refused", "unreachable"}

\* the probe did not get through
FailingConditions == NetConditions \ {"answer"}

\* HostConfig.protocol of the hosts, as _parse_hosts reads it from config.hosts
Protocol == [h \in Hosts |-> IF h = HostList[1] THEN "tcp" ELSE "udp"]

\* DEFAULT_TIMEOUT = 0.025 s, in ms: what end - start measures when a call
\* waits for the whole timeout
TimeoutMs == 25

Succeeded(t, rtt) == [timestamp |-> t, success |-> TRUE, rtt_ms |-> <<rtt>>]

Failed(t) == [timestamp |-> t, success |-> FALSE, rtt_ms |-> <<>>]

\* test_tcp: connect() raises on a timeout, a refusal and an unreachable
\* network, and except Exception turns what it raises into a failed result
test_tcp(t, cond) ==
    IF cond = "answer" THEN {Succeeded(t, r) : r \in RttValues} ELSE {Failed(t)}

\* test_udp: sendto() raises when the network is unreachable; socket.timeout
\* from recvfrom() is passed over, and the probe is returned as a success that
\* took the timeout.  A refusal (ICMP port unreachable) reaches recvfrom() of
\* this unconnected socket as an error on some systems and not at all on others.
test_udp(t, cond) ==
    CASE cond = "answer" -> {Succeeded(t, r) : r \in RttValues}
      [] cond = "timeout" -> {Succeeded(t, TimeoutMs)}
      [] cond = "refused" -> {Succeeded(t, TimeoutMs), Failed(t)}
      [] cond = "unreachable" -> {Failed(t)}

\* _test_host
test_host(host, t, cond) ==
    IF Protocol[host] = "udp" THEN test_udp(t, cond) ELSE test_tcp(t, cond)

\* one iteration of for host in self.hosts (lines 609-622), the network doing
\* cond to the probe
ProbeNet ==
    /\ UNCHANGED threadVars
    /\ pc = "probe"
    /\ \E d \in {0} \cup Advances : ClockRead(d)
    /\ \E cond \in NetConditions :
        /\ net' = cond
        /\ \E result \in test_host(HostList[hostIdx], clock', cond) :
            LET after == ProbeEffect([hd |-> host_data, lr |-> last_results,
                                      lat |-> last_alert_time], HostList[hostIdx], result)
            IN /\ last_results' = after.lr
               /\ host_data' = after.hd
               /\ last_alert_time' = after.lat
    /\ IF hostIdx < Len(HostList)
       THEN hostIdx' = hostIdx + 1 /\ pc' = pc
       ELSE hostIdx' = hostIdx /\ pc' = "timer_write"
    /\ UNCHANGED <<shutdown_requested, last_write_time, last_cleanup_time,
                   ct, pending, cycles, signals, flushes, exitCause, outages>>

ProbeNext ==
    \/ RunStart
    \/ LoopTest
    \/ ProbeNet
    \/ WriteTimer
    \/ CleanupTimer
    \/ Sleep
    \/ Shutdown

SpecProbe == Init /\ [][ProbeNext]_vars

\* C12: a probe that fails by timeout, refusal or unreachability, tcp or udp,
\* is recorded as a failed result without RTT and ingested with sent + 1,
\* fail_count + 1 and received unchanged in its three buckets; run() stays in
\* its loop.
C12_FailedProbeRecorded ==
    [][(IngestStep /\ net' \in FailingConditions) =>
        LET host == HostList[hostIdx]
            result == last_results'[host][1]
        IN /\ ~result.success
           /\ result.rtt_ms = <<>>
           /\ pc' \in InTry
           /\ \A r \in Resolutions : \A k \in DOMAIN host_data'[host][r] :
                TruncatedTo(k, result.timestamp, Width(r)) =>
                    LET o == OldOrZero(host_data[host][r], k)
                        n == host_data'[host][r][k]
                    IN /\ n.sent = o.sent + 1
                       /\ n.fail_count = o.fail_count + 1
                       /\ n.received = o.received]_vars

\* the part of C12 that the code keeps: the same, for a tcp probe, and for a
\* udp probe that found the network unreachable
C12_TcpFailedProbeRecorded ==
    [][(IngestStep /\ net' \in FailingConditions
          /\ (Protocol[HostList[hostIdx]] = "tcp" \/ net' = "unreachable")) =>
        LET host == HostList[hostIdx]
            result == last_results'[host][1]
        IN /\ ~result.success
           /\ result.rtt_ms = <<>>
           /\ pc' \in InTry]_vars

(* --------------------------- the readers' frame -------------------------- *)
\* a call of _detect_outages, _get_web_stats or _write_stats + _print_stats
ReadStep == pc' # pc /\ pc' \in {"scanned", "rescanned", "snapshot", "exported"}

RescanStep == pc = "scanned" /\ pc' = "rescanned"

EvictionStep == pc = "timer_cleanup"

\* C15: _cleanup_old_data leaves the minute and hour buckets and the second
\* buckets it keeps as they were; over a run the minute and hour keys of a host
\* only grow.
C15_EvictionFrame ==
    /\ [][EvictionStep =>
            \A h \in Hosts :
                /\ host_data'[h]["minute"] = host_data[h]["minute"]
                /\ host_data'[h]["hour"] = host_data[h]["hour"]
                /\ \A k \in DOMAIN host_data'[h]["second"] :
                       /\ k \in DOMAIN host_data[h]["second"]
                       /\ host_data'[h]["second"][k] = host_data[h]["second"][k]]_vars
    /\ [][\A h \in Hosts : \A r \in {"minute", "hour"} :
            DOMAIN host_data[h][r] \subseteq DOMAIN host_data'[h][r]]_vars

\* C15 witness: right after an eviction a host has lost a second bucket, keeps
\* one, and has two minute and two hour buckets
C15_Witness ==
    /\ pc = "sleep"
    /\ last_cleanup_time = ct
    /\ \E h \in Hosts :
        /\ Evicted(host_data, h)
        /\ Cardinality(DOMAIN host_data[h]["second"]) = max_seconds
        /\ Cardinality(DOMAIN host_data[h]["minute"]) = 2
        /\ Cardinality(DOMAIN host_data[h]["hour"]) = 2

(* ----------------------- a target without failures ----------------------- *)
\* no retained second bucket of host h holds a failure
NoFailures(h) == \A k \in DOMAIN host_data[h]["second"] : host_data[h]["second"][k].fail_count = 0

\* the snapshot shows host number i without episodes and at 100%
CleanInSnapshot(i) ==
    /\ \A j \in 1..Len(reader.all) : reader.all[j].host # HostList[i]
    /\ success_rate(reader.rates[i]).num = 100 * success_rate(reader.rates[i]).den

\* C16: a target with zero failures over its retained second buckets has no
\* outage episode and a success rate of 100% in the snapshot.
C16_ZeroFailures ==
    pc = "snapshot" => \A i \in 1..Len(HostList) : NoFailures(HostList[i]) => CleanInSnapshot(i)

\* the same for a target that has a retained second bucket: this much holds
C16_ProbedZeroFailures ==
    pc = "snapshot" =>
        \A i \in 1..Len(HostList) :
            (NoFailures(HostList[i]) /\ host_data[HostList[i]]["second"] # EmptyStorage)
                => CleanInSnapshot(i)

\* a snapshot of a probed target without failures beside one with an outage
C16_ProbedReached ==
    /\ pc = "snapshot"
    /\ \E h \in Hosts : NoFailures(h) /\ host_data[h]["second"] # EmptyStorage
    /\ reader.all # <<>>

(* ------------------------- the order of the list ------------------------- *)
\* C17: the list _detect_outages returns is ordered most recent first across
\* all hosts: the start key of each episode is greater than or equal to the
\* start key of the episode after it.
C17_MostRecentFirst ==
    pc = "scanned" =>
        \A i \in 1..(Len(outages) - 1) : ~KeyLess(outages[i].start, outages[i + 1].start)

\* C17 witness: a scan returned two episodes of the first host, which were
\* appended oldest first, and an episode of the second host
C17_Witness ==
    /\ pc = "scanned"
    /\ \E i, j \in 1..Len(outages) :
          /\ i < j
          /\ outages[i].host = HostList[1]
          /\ outages[j].host = HostList[1]
          /\ KeyLess(outages[j].start, outages[i].start)
    /\ \E i \in 1..Len(outages) : outages[i].host = HostList[2]

(* ------------------- no or one qualifying second ------------------------- *)
\* C18: a host with no qualifying second has no episode in the list; a host
\* with exactly one has exactly one episode, which starts and ends at that
\* second and has duration 1.
C18_ZeroOrOneSecond ==
    pc = "scanned" =>
        \A h \in Hosts :
            /\ QualKeys(h) = {} => EpisodesOf(h) = {}
            /\ Cardinality(QualKeys(h)) = 1 =>
                 /\ Cardinality(EpisodesOf(h)) = 1
                 /\ \A i \in EpisodesOf(h) :
                       /\ outages[i].start \in QualKeys(h)
                       /\ outages[i].end = outages[i].start
                       /\ outages[i].duration = 1

\* C18 witness: a scan of a store where one host has one qualifying second
\* among the seconds of the window and another has buckets but none qualifying
C18_Witness ==
    /\ pc = "scanned"
    /\ \E h \in Hosts :
          /\ Cardinality(QualKeys(h)) = 1
          /\ Cardinality(DOMAIN host_data[h]["second"]) = ScanWindow
    /\ \E h \in Hosts : QualKeys(h) = {} /\ host_data[h]["second"] # EmptyStorage

(* --------------------------- packet_loss range --------------------------- *)
\* the fraction f lies in [0, 1]
InUnit(f) == f.den > 0 /\ 0 <= f.num /\ f.num <= f.den

\* the buckets of the stores, and the zeroed bucket line 535 puts into a store
\* before line 537 counts the probe
BucketValues ==
    {host_data[b[1]][b[2]][b[3]] : b \in BucketsOf(host_data)} \cup {NewStats}

\* C19: packet_loss of every bucket that ingests can produce lies in [0, 1], and
\* is exactly 0 when sent = 0.
C19_PacketLossRange ==
    \A st \in BucketValues :
        /\ InUnit(packet_loss(st))
        /\ st.sent = 0 => packet_loss(st).num = 0

\* C19 witness: the stores hold a bucket that lost every probe, one that lost
\* none, and one that lost some of several
C19_Witness ==
    /\ \E st \in BucketValues : st.sent > 0 /\ packet_loss(st).num = packet_loss(st).den
    /\ \E st \in BucketValues : st.sent > 0 /\ packet_loss(st).num = 0
    /\ \E st \in BucketValues :
          /\ st.sent > 1
          /\ 0 < packet_loss(st).num
          /\ packet_loss(st).num < packet_loss(st).den

(* -------------------- _update_stats called directly ----------------------- *)
\* a HostConfig name that __init__ has made no store for
Unregistered == "z"

\* the names a caller may pass: the registered hosts, then the unregistered one
CallNames == HostList \o <<Unregistered>>

\* calls of _update_stats made
MaxCalls == 3

\* update_stats with the store of an unknown name made on the fly (setdefault)
update_stats_SetDefault(hd, name, result) ==
    IF name \in DOMAIN hd
    THEN [hd |-> UpdateStats(hd, name, result), raised |-> "none"]
    ELSE [hd |-> UpdateStats(hd @@ (name :> [r \in Resolutions |-> EmptyStorage]), name, result),
          raised |-> "none"]

\* _update_stats(host, result): data = self.host_data[host.name] (line 530)
\* raises KeyError for a name that is no key, before anything is written
update_stats(hd, name, result) ==
    IF name \in DOMAIN hd
    THEN [hd |-> UpdateStats(hd, name, result), raised |-> "none"]
    ELSE [hd |-> hd, raised |-> "KeyError"]

\* a caller passes the name at hostIdx' of CallNames and a result to
\* _update_stats of the constructed monitor; the KeyError is not caught
IngestCall ==
    /\ UNCHANGED <<threadVars, net>>
    /\ pc = "start"
    /\ cycles < MaxCalls
    /\ cycles' = cycles + 1
    /\ \E d \in {0} \cup Advances : ClockRead(d)
    /\ \E i \in 1..Len(CallNames) : \E result \in TestOutcomes(clock') :
        LET after == update_stats(host_data, CallNames[i], result)
        IN /\ hostIdx' = i
           /\ host_data' = after.hd
           /\ pending' = after.raised
           /\ pc' = IF after.raised = "none" THEN pc ELSE "raised"
    /\ UNCHANGED <<last_results, shutdown_requested, last_write_time, last_cleanup_time,
                   last_alert_time, ct, signals, flushes, exitCause, outages>>

IngestNext == IngestCall

SpecIngest == Init /\ [][IngestNext]_vars

\* a call of _update_stats with the unregistered name
UnregisteredCall == pc = "start" /\ cycles' = cycles + 1 /\ hostIdx' > Len(HostList)

\* C20: _update_stats for a target that is not registered raises instead of
\* recording the result: no store is made for the unknown target and every
\* store is as it was.
C20_UnregisteredRaises ==
    [][UnregisteredCall =>
        /\ pending' = "KeyError"
        /\ pc' = "raised"
        /\ DOMAIN host_data' = Hosts
        /\ host_data' = host_data]_vars

\* C20 witness: the call for the unregistered name has raised after results of
\* both registered hosts were recorded
C20_Witness ==
    /\ pc = "raised"
    /\ pending = "KeyError"
    /\ hostIdx > Len(HostList)
    /\ \A h \in Hosts : host_data[h]["second"] # EmptyStorage

(* ------------------------ targets are independent ------------------------ *)
\* an export of the probe loop has just written outages.txt from a scan
ScanInRun == pc = "timer_write" /\ last_write_time' # last_write_time

\* the qualifying seconds of its own host that episode e spans
OwnSeconds(e) == {k \in QualKeys(e.host) : Covers(e, k)}

\* C21: an ingest for one target changes no bucket and no key set of another
\* target, and a scan builds every episode from the qualifying seconds of one
\* target only, also when two targets have equal or adjacent keys.
C21_TargetsIndependent ==
    /\ [][IngestStep =>
            \A h \in Hosts \ {HostList[hostIdx]} : host_data'[h] = host_data[h]]_vars
    /\ [][ScanInRun =>
            /\ \A h \in Hosts : QualKeys(h) # {} => \E i \in 1..Len(outages') : outages'[i].host = h
            /\ \A i \in 1..Len(outages') :
                LET e == outages'[i]
                    sd == host_data[e.host]["second"]
                IN /\ e.start \in OwnSeconds(e)
                   /\ e.end \in OwnSeconds(e)
                   /\ e.duration = Cardinality(OwnSeconds(e))
                   /\ e.sent = SumOver(sd, SortedKeys(OwnSeconds(e)), 1)
                   /\ e.received = SumOver(sd, SortedKeys(OwnSeconds(e)), 2)]_vars

\* C21 witness: the export wrote an episode of each of two hosts that start at
\* the same second, one of them going on for a second more than the other
C21_Witness ==
    /\ pc = "timer_cleanup"
    /\ last_write_time = clock
    /\ \E i, j \in 1..Len(outages) :
          /\ outages[i].host # outages[j].host
          /\ outages[i].start = outages[j].start
          /\ outages[i].duration = 2
          /\ outages[j].duration = 1
          /\ QualKeys(outages[i].host) # QualKeys(outages[j].host)

(* -------------------------- when eviction runs --------------------------- *)
\* a second bucket has gone, or the time of the last eviction was set
EvictionHappens ==
    \/ last_cleanup_time' # last_cleanup_time
    \/ \E h \in Hosts : ~(DOMAIN host_data[h]["second"] \subseteq DOMAIN host_data'[h]["second"])

\* C22: eviction happens only at the cleanup timer of the probe loop, never in
\* an ingest, an export or a scan; only when 60 seconds or more have passed
\* since the last eviction or the start; and at most once in a probe cycle: the
\* loop goes from the cleanup timer to its sleep, and comes to the timer again
\* only through the top of the loop and the probes of a new cycle.
C22_EvictionCadence ==
    /\ [][EvictionHappens =>
            /\ pc = "timer_cleanup"
            /\ ct - last_cleanup_time >= CleanupInterval
            /\ last_cleanup_time' = ct]_vars
    /\ [][(pc = "timer_cleanup" /\ pc' # pc) => pc' \in {"sleep", "shutdown", "raised"}]_vars
    /\ [][(pc' = "timer_cleanup" /\ pc' # pc) => pc = "timer_write"]_vars
    /\ [][(pc' = "timer_write" /\ pc' # pc) => pc = "probe"]_vars
    /\ [][(pc' = "probe" /\ pc' # pc) => (pc = "loop_top" /\ cycles' = cycles + 1)]_vars

\* C22 witness: the second cycle has evicted a bucket, 60 seconds after the
\* first cycle's call of _cleanup_old_data
C22_Witness ==
    /\ pc = "sleep"
    /\ cycles = 2
    /\ last_cleanup_time = StartTime + 2 * CleanupInterval
    /\ \E h \in Hosts : Evicted(host_data, h)

(* ------------------------------ alert cooldown ---------------------------- *)
\* the time of the last alert dispatched for host h, 0 when there was none
LastAlert(h) == IF last_alert_time[h] = <<>> THEN 0 ELSE last_alert_time[h][1]

\* the step probes host h, the probe fails and the loss of the recent seconds
\* is above the threshold: alert_outage is called for h
AlertAttempt(h) ==
    /\ pc = "probe"
    /\ h = HostList[hostIdx]
    /\ last_results'[h] # <<>>
    /\ last_results'[h][1].timestamp = clock'
    /\ ~last_results'[h][1].success
    /\ host_data' # host_data
    /\ LossAboveThreshold(RecentStats(host_data'[h]["second"]))

\* C23: an alert is dispatched for a host only 300 seconds or more after the
\* last alert dispatched for that host; an attempt inside the window is
\* dropped and leaves the window where it was; an attempt outside the window
\* is dispatched whatever the windows of the other hosts are, and no step for
\* one host changes the window of another.
C23_AlertCooldown ==
    /\ [][\A h \in Hosts :
            last_alert_time'[h] # last_alert_time[h] =>
                /\ AlertAttempt(h)
                /\ last_alert_time'[h] = <<clock'>>
                /\ clock' - LastAlert(h) >= alert_cooldown
                /\ \A g \in Hosts \ {h} : last_alert_time'[g] = last_alert_time[g]]_vars
    /\ [][\A h \in Hosts :
            AlertAttempt(h) =>
                IF clock' - LastAlert(h) >= alert_cooldown
                THEN last_alert_time'[h] = <<clock'>>
                ELSE last_alert_time' = last_alert_time]_vars

\* C23 witness: host a alerted at the start and again a cooldown later, its
\* failed probe of the start still in the store
C23_Witness ==
    /\ last_alert_time["a"] = <<StartTime + alert_cooldown>>
    /\ FmtSecond(StartTime) \in DOMAIN host_data["a"]["second"]
    /\ host_data["a"]["second"][FmtSecond(StartTime)].sent = 1
    /\ host_data["a"]["second"][FmtSecond(StartTime)].fail_count = 1

\* an attempt for host a was dropped inside its window, one minute after its
\* alert, and host b alerted inside the window of a
C23_SuppressedReached ==
    /\ last_alert_time["a"] = <<StartTime>>
    /\ last_alert_time["b"] = <<StartTime + 1>>
    /\ last_results["a"] # <<>>
    /\ last_results["a"][1].timestamp = StartTime + 61
    /\ ~last_results["a"][1].success
    /\ LossAboveThreshold(RecentStats(host_data["a"]["second"]))

(* ------------------- the totals of a snapshot under races ----------------- *)
\* _get_web_stats returns on the dashboard thread
SnapshotReturns ==
    /\ reader.pc = "det_read"
    /\ reader'.pc = "idle"
    /\ reader'.requests = reader.requests + 1

\* C24: every snapshot _get_web_stats returns beside the probe loop has
\* total_received <= total_sent, total_lost = total_sent - total_received >= 0
\* and packet_loss_percent between 0 and 100.
C24_SnapshotTotals ==
    [][SnapshotReturns =>
        LET s == Response(reader)
        IN /\ s.total_received <= s.total_sent
           /\ s.total_lost = s.total_sent - s.total_received
           /\ s.total_lost >= 0
           /\ s.packet_loss_percent.num >= 0
           /\ s.packet_loss_percent.num <= 100 * s.packet_loss_percent.den]_vars

(* ------------------ the success rates of a snapshot under races ----------- *)
\* C25: every per-host success_rate of a snapshot _get_web_stats returns beside
\* the probe loop, its ingests and its evictions, is between 0 and 100.
C25_SuccessRateRange ==
    [][SnapshotReturns =>
        \A i \in 1..Len(Response(reader).hosts) :
            LET rate == success_rate(Response(reader).hosts[i])
            IN rate.den > 0 /\ 0 <= rate.num /\ rate.num <= 100 * rate.den]_vars

(* ----------------- the second buckets between two evictions --------------- *)
\* the number of second buckets of host h in hd
SecondCount(hd, h) == Cardinality(DOMAIN hd[h]["second"])

\* run() calls _cleanup_old_data in this step
EvictionCall ==
    /\ pc = "timer_cleanup"
    /\ pc' = "sleep"
    /\ ct - last_cleanup_time >= CleanupInterval

\* the second buckets of host h whose second is not before the last eviction
\* (or the start)
SinceEviction(h) ==
    {k \in DOMAIN host_data[h]["second"] : Strptime(k) >= last_cleanup_time}

\* C26: a call of _cleanup_old_data leaves every host with max_seconds second
\* buckets at most; after it the count of a host grows by one with every ingest
\* into a second that has no bucket yet, and by nothing else; so at every point
\* the count is at most max_seconds plus the number of seconds that took a
\* result since the last eviction.
C26_GrowthBetweenEvictions ==
    /\ [](\A h \in Hosts :
            SecondCount(host_data, h) <= max_seconds + Cardinality(SinceEviction(h)))
    /\ [][EvictionCall => \A h \in Hosts : SecondCount(host_data', h) <= max_seconds]_vars
    /\ [][IngestStep =>
            LET h == HostList[hostIdx]
            IN SecondCount(host_data', h) =
                 SecondCount(host_data, h)
                   + (IF FmtSecond(clock') \in DOMAIN host_data[h]["second"] THEN 0 ELSE 1)]_vars
    /\ [][\A h \in Hosts :
            SecondCount(host_data', h) # SecondCount(host_data, h) =>
                \/ EvictionCall
                \/ IngestStep /\ h = HostList[hostIdx]]_vars

\* C26 witness: after an eviction a host holds more than max_seconds second
\* buckets
C26_Witness ==
    /\ last_cleanup_time > StartTime
    /\ \E h \in Hosts :
          /\ SecondCount(host_data, h) > max_seconds
          /\ \E k \in DOMAIN host_data[h]["second"] : Strptime(k) > last_cleanup_time

(* ----------------------- the final flush on every exit -------------------- *)
\* run() has left its probe loop: by the flag, by a forced abort or by a failed
\* export
LeftLoop == exitCause \in {"flag", "abort", "oserror"}

\* C27: whichever way run() has left the probe loop, _shutdown and its final
\* flush have run exactly once when run() ends, and never more than once.
C27_FlushOnEveryExit ==
    /\ flushes <= 1
    /\ (pc \in Terminal /\ LeftLoop) => flushes = 1

(* ---------------------- a stop request ends the loop ---------------------- *)
\* a step of the main thread in run()
RunStep ==
    \/ RunStart
    \/ LoopTest
    \/ ProbeHost
    \/ WriteTimer
    \/ CleanupTimer
    \/ Sleep
    \/ Shutdown

\* the main thread has a statement of run() to carry out: run() has not ended
\* (and the model's bound on the cycles lets the loop go on)
RunEnabled ==
    /\ pc \notin Terminal
    /\ pc = "loop_top" => (shutdown_requested \/ cycles < MaxCycles)

\* where the main thread is in run()
position == <<pc, hostIdx>>

\* the main thread moves on: every step of RunStep changes position and is no
\* signal, and no other step of Next is so
RunMoves ==
    /\ RunEnabled
    /\ signals' = signals
    /\ pc' \in {"start", "shutdown"} \cup InTry \cup Terminal
    /\ hostIdx' \in 1..Len(HostList)

\* the main thread goes on with run(): every probe, export, alert and sleep it
\* calls returns, so the statement run() has reached is carried out; nothing is
\* assumed about the arrival of signals. RunMoves is enabled exactly where
\* RunStep is, and its steps under Next are the steps of RunStep.
RunFairness == WF_position(RunMoves)

SpecLive == Init /\ [][Next]_vars /\ RunFairness

\* C28: once a stop request has set shutdown_requested with run() in its probe
\* loop, run() leaves the loop and comes to _shutdown; the flag is never reset;
\* and after the request no new cycle starts and the host index only grows, so
\* only the probes that were left in the cycle in progress are ingested.
C28_StopTerminates ==
    /\ (shutdown_requested /\ pc \in InTry) ~> (pc = "shutdown")
    /\ [][shutdown_requested => shutdown_requested']_vars
    /\ [][shutdown_requested => cycles' = cycles /\ hostIdx' >= hostIdx]_vars
    /\ [][(shutdown_requested /\ IngestStep)
            => \/ hostIdx' = hostIdx + 1
               \/ hostIdx = Len(HostList) /\ pc' = "timer_write"]_vars

\* C28 witness: the request came before the second probe of a cycle, the second
\* host was probed all the same, and run() has come to _shutdown by the flag
C28_Witness ==
    /\ pc = "shutdown"
    /\ exitCause = "flag"
    /\ signals = 1
    /\ cycles = 2
    /\ \A h \in Hosts : last_results[h] # <<>> /\ last_results[h][1].timestamp > StartTime

(* --------------------- episodes partition the bad seconds ----------------- *)
RECURSIVE EpisodeSum(_, _, _)
\* the sum over the episodes of host h at the positions i.. of outages of
\* field f (1 = sent, 2 = received, 3 = duration)
EpisodeSum(h, i, f) ==
    IF i > Len(outages) THEN 0
    ELSE (IF outages[i].host # h THEN 0
          ELSE IF f = 1 THEN outages[i].sent
          ELSE IF f = 2 THEN outages[i].received
          ELSE outages[i].duration)
         + EpisodeSum(h, i + 1, f)

\* C29: after a scan every qualifying second of a host lies in exactly one
\* episode of that host, every second an episode spans is a qualifying second
\* of its host, the durations of a host's episodes add up to the number of its
\* qualifying seconds, and their sent and received add up to the sums over the
\* qualifying buckets.
C29_EpisodesPartition ==
    pc = "scanned" =>
        \A h \in Hosts :
            /\ \A k \in QualKeys(h) :
                  Cardinality({i \in EpisodesOf(h) : Covers(outages[i], k)}) = 1
            /\ \A i \in EpisodesOf(h) :
                  \A t \in Strptime(outages[i].start)..Strptime(outages[i].end) :
                      FmtSecond(t) \in QualKeys(h)
            /\ EpisodeSum(h, 1, 3) = Cardinality(QualKeys(h))
            /\ EpisodeSum(h, 1, 1) = SumOver(host_data[h]["second"], SortedKeys(QualKeys(h)), 1)
            /\ EpisodeSum(h, 1, 2) = SumOver(host_data[h]["second"], SortedKeys(QualKeys(h)), 2)

\* C29 witness: a scan of a store where one host has two episodes around a
\* second with a bucket that does not qualify, and the other host one episode
\* of two seconds beside a bucket that does not qualify
C29_Witness ==
    /\ pc = "scanned"
    /\ \E h \in Hosts :
          /\ Cardinality(EpisodesOf(h)) = 2
          /\ Cardinality(QualKeys(h)) = 2
          /\ Cardinality(DOMAIN host_data[h]["second"]) = 3
    /\ \E h \in Hosts :
          /\ Cardinality(EpisodesOf(h)) = 1
          /\ Cardinality(QualKeys(h)) = 2
          /\ Cardinality(DOMAIN host_data[h]["second"]) = 3
          /\ \E k \in DOMAIN host_data[h]["second"] \ QualKeys(h) :
                host_data[h]["second"][k].received < host_data[h]["second"][k].sent

(* ------------------------- the span of an episode ------------------------- *)
\* C30: after a scan every episode has start <= end and a duration equal to
\* the number of seconds from start to end, both included.
C30_DurationIsSpan ==
    pc = "scanned" =>
        \A i \in 1..Len(outages) :
            /\ outages[i].start = outages[i].end \/ KeyLess(outages[i].start, outages[i].end)
            /\ outages[i].duration = Strptime(outages[i].end) - Strptime(outages[i].start) + 1

\* C30 witness: a scan that returned an episode of three seconds across the
\* turn of the hour and an episode of one second
C30_Witness ==
    /\ pc = "scanned"
    /\ \E i, j \in 1..Len(outages) :
          /\ outages[i].start = FmtSecond(StartTime)
          /\ outages[i].end = FmtSecond(StartTime + 2)
          /\ outages[i].duration = 3
          /\ outages[j].duration = 1
          /\ outages[j].start = outages[j].end

(* -------------------- the three resolutions agree ------------------------- *)
\* the counters of a bucket
Counters == {"sent", "received", "success_count", "fail_count"}
Counter(st, f) ==
    CASE f = "sent" -> st.sent
      [] f = "received" -> st.received
      [] f = "success_count" -> st.success_count
      [] f = "fail_count" -> st.fail_count

RECURSIVE CounterSum(_, _, _)
\* the sum of counter f over the buckets of storage at the keys of a sequence
CounterSum(storage, keys, f) ==
    IF keys = <<>> THEN 0
    ELSE Counter(storage[Head(keys)], f) + CounterSum(storage, Tail(keys), f)

\* the minute keys of host h in hd that fall in the hour of key hk
MinutesIn(hd, h, hk) == {k \in DOMAIN hd[h]["minute"] : FmtHour(Strptime(k)) = hk}
\* the second keys host h retains in hd that fall in the minute of key mk
SecondsIn(hd, h, mk) == {k \in DOMAIN hd[h]["second"] : FmtMinute(Strptime(k)) = mk}

\* what minute bucket mk of host h counts above its retained seconds, for each
\* counter; 0 for a minute that has no bucket
Deficits(hd, h, mk) ==
    LET keys == SortedKeys(SecondsIn(hd, h, mk))
    IN [f \in Counters |->
          IF mk \in DOMAIN hd[h]["minute"]
          THEN Counter(hd[h]["minute"][mk], f) - CounterSum(hd[h]["second"], keys, f)
          ELSE 0]
Deficit(hd, h, mk, f) == Deficits(hd, h, mk)[f]

\* C31: every hour bucket's counters are the sums over the host's minute
\* buckets of that hour; every minute bucket's counters are at least the sums
\* over the retained second buckets of that minute, and equal to them as long
\* as no second of that minute was evicted: they are equal before the first
\* eviction, and the difference of a minute changes only in a call of
\* _cleanup_old_data that deletes a second of that minute.
C31_ResolutionsAgree ==
    /\ [](\A h \in Hosts :
            /\ \A k \in DOMAIN host_data[h]["second"] :
                  FmtMinute(Strptime(k)) \in DOMAIN host_data[h]["minute"]
            /\ \A k \in DOMAIN host_data[h]["minute"] :
                  FmtHour(Strptime(k)) \in DOMAIN host_data[h]["hour"]
            /\ \A hk \in DOMAIN host_data[h]["hour"] :
                  LET keys == SortedKeys(MinutesIn(host_data, h, hk))
                  IN \A f \in Counters :
                        Counter(host_data[h]["hour"][hk], f)
                          = CounterSum(host_data[h]["minute"], keys, f)
            /\ \A mk \in DOMAIN host_data[h]["minute"] :
                  LET d == Deficits(host_data, h, mk)
                  IN \A f \in Counters :
                        /\ d[f] >= 0
                        /\ last_cleanup_time = StartTime => d[f] = 0)
    /\ [][host_data' # host_data =>
            \A h \in Hosts : \A mk \in DOMAIN host_data'[h]["minute"] :
                Deficits(host_data', h, mk) # Deficits(host_data, h, mk) =>
                    /\ EvictionCall
                    /\ SecondsIn(host_data, h, mk) \ SecondsIn(host_data', h, mk) # {}]_vars

\* C31 witness: after an eviction a host has a minute that counts more than
\* its retained seconds (none is left) and a later minute equal to its
\* retained second, in two different hours
C31_Witness ==
    \E h \in Hosts : \E m1, m2 \in DOMAIN host_data[h]["minute"] :
        /\ last_cleanup_time > StartTime
        /\ FmtHour(Strptime(m1)) # FmtHour(Strptime(m2))
        /\ Deficit(host_data, h, m1, "sent") = 1
        /\ SecondsIn(host_data, h, m1) = {}
        /\ Deficit(host_data, h, m2, "sent") = 0
        /\ SecondsIn(host_data, h, m2) # {}

\* an hour bucket that sums two minute buckets, one failed probe in each
C31_TwoMinutesReached ==
    \E h \in Hosts : \E hk \in DOMAIN host_data[h]["hour"] :
        /\ Cardinality(MinutesIn(host_data, h, hk)) = 2
        /\ host_data[h]["hour"][hk].fail_count = 2

====
